---- MODULE Spec2Model ----
(***************************************************************************)
(* A model of the AirportAPI booking service: the relational store         *)
(* (airplanes, crews, airports, routes, flights, orders, tickets), the     *)
(* request handlers of the viewsets with their permission checks, and the  *)
(* validators of the models.                                               *)
(***************************************************************************)
EXTENDS Integers, Sequences, FiniteSets, TLC

VARIABLES
    users,      \* user id -> [is_staff]                       (user.models.User)
    airplanes,  \* airplane id -> [rows, seats_in_row]         (app.models.Airplane)
    crews,      \* crew id -> [title]                          (app.models.Crew)
    airports,   \* airport id -> [code, country]               (app.models.Airport)
    routes,     \* route id -> [source, destination]           (app.models.Route)
    flights,    \* flight id -> [route, airplane, crew, departure_time, arrival_time]
    orders,     \* order id -> [user, tx]                      (app.models.Order)
    tickets,    \* ticket id -> [flight, order, row, seat, tx] (app.models.Ticket)
    seq,        \* table name -> next auto-increment id
    now,        \* the clock read by timezone.now()
    reqs,       \* client -> the order-creation request it has in flight
    response,   \* the last response sent
    probe,      \* inputs and outcome of a direct call of Ticket.validate_ticket
    settings    \* the deployment's database settings

vars == <<users, airplanes, crews, airports, routes, flights, orders, tickets,
          seq, now, reqs, response, probe, settings>>

----------------------------------------------------------------------------
(* Bounds of the model. *)

MaxProbe == 6           \* validate_ticket is probed with row, seat in -1..MaxProbe
MaxProbeSize == 5       \* ... on airplanes of 0..MaxProbeSize rows / seats in a row
NumClients == 2         \* clients with an order creation in flight at a time
MaxAirplanes == 1       \* airplanes ever created
MaxFlights == 1         \* flights ever created
MaxRows == 2            \* rows of an airplane, and row of a ticket, in 1..MaxRows
MaxSeats == 1           \* seats in a row, and seat of a ticket, in 1..MaxSeats
MaxOrders == 2          \* orders ever created
MaxTickets == 4         \* tickets ever created
MaxTicketsPerOrder == 2 \* tickets in the body of one order request
MaxTime == 2            \* the clock, and the times of a flight, run over 0..MaxTime
MaxRoutes == 1          \* routes (and so flights) ever created with their times
MaxCodeInput == 2       \* characters of an airport code in a request body
MaxAirports == 1        \* airports ever created
MaxCrews == 1           \* crew members ever created

----------------------------------------------------------------------------
(* Ticket.validate_ticket                                                  *)

NoError == [field |-> "", message |-> ""]

\* the f-string of the error: "<field> number must be in available range:
\* (1, <attr>): (1, <count>)"
RangeMessage(ticket_attr_name, airplane_attr_name, count_attrs) ==
    ticket_attr_name \o " number must be in available range: (1, "
        \o airplane_attr_name \o "): (1, " \o ToString(count_attrs) \o ")"

RangeError(ticket_attr_name, airplane_attr_name, count_attrs) ==
    [field |-> ticket_attr_name,
     message |-> RangeMessage(ticket_attr_name, airplane_attr_name, count_attrs)]

InRange(ticket_attr_value, count_attrs) ==
    1 <= ticket_attr_value /\ ticket_attr_value <= count_attrs

\* validate_ticket with the two attributes visited in the other order
validate_ticket_seat_first(row, seat, airplane) ==
    IF ~InRange(seat, airplane.seats_in_row)
    THEN RangeError("seat", "seats_in_row", airplane.seats_in_row)
    ELSE IF ~InRange(row, airplane.rows)
         THEN RangeError("row", "rows", airplane.rows)
         ELSE NoError

\* The loop over (row, "row", "rows"), (seat, "seat", "seats_in_row"): the
\* first attribute out of range raises; NoError when the loop ends.
validate_ticket(row, seat, airplane) ==
    IF ~InRange(row, airplane.rows)
    THEN RangeError("row", "rows", airplane.rows)
    ELSE IF ~InRange(seat, airplane.seats_in_row)
         THEN RangeError("seat", "seats_in_row", airplane.seats_in_row)
         ELSE NoError

----------------------------------------------------------------------------
(* The store: every table is a function from primary key to row.           *)

EmptyTable == << >>

Insert(table, id, row) ==
    [i \in DOMAIN table \cup {id} |-> IF i = id THEN row ELSE table[i]]

Remove(table, ids) == [i \in DOMAIN table \ ids |-> table[i]]

\* the next value of the table's auto-increment key
NextVal(name) == seq[name]

Advance(name) == [seq EXCEPT ![name] = @ + 1]

\* dict.get(field, current): a request body is a record of the fields it carries
Given(data, field, current) ==
    IF field \in DOMAIN data THEN data[field] ELSE current

Has(data, fields) == fields \subseteq DOMAIN data

\* the tx of a row whose transaction has committed
Committed == 0

----------------------------------------------------------------------------
(* Callers and permissions                                                 *)

Anonymous == "anonymous"

Callers == DOMAIN users \cup {Anonymous}

is_authenticated(u) == u \in DOMAIN users

is_staff(u) == is_authenticated(u) /\ users[u].is_staff

WriteMethods == {"PUT", "PATCH", "DELETE", "POST"}

Methods == WriteMethods \cup {"GET"}

\* rest_framework.permissions.IsAuthenticated / IsAdminUser
\* and user.permissions.IsNotAuthenticatedOrAdmin
has_permission(permission, u) ==
    CASE permission = "IsAdminUser" -> is_staff(u)
      [] permission = "IsNotAuthenticatedOrAdmin" ->
            ~is_authenticated(u) \/ is_staff(u)
      [] OTHER -> is_authenticated(u)

\* a viewset asking IsAdminUser for PUT, PATCH and DELETE alone
AirplaneViewSet_get_permissions_post_open(method) ==
    IF method \in {"PUT", "PATCH", "DELETE"}
    THEN "IsAdminUser" ELSE "IsAuthenticated"

AirplaneViewSet_get_permissions(method) ==
    IF method \in {"PUT", "PATCH", "DELETE", "POST"}
    THEN "IsAdminUser" ELSE "IsAuthenticated"

CrewViewSet_get_permissions(method) ==
    IF method \in {"PUT", "PATCH", "DELETE", "POST"}
    THEN "IsAdminUser" ELSE "IsAuthenticated"

AirportViewSet_get_permissions(method) ==
    IF method \in {"PUT", "PATCH", "DELETE", "POST"}
    THEN "IsAdminUser" ELSE "IsAuthenticated"

FlightViewSet_get_permissions(method) ==
    IF method \in {"PUT", "PATCH", "DELETE", "POST"}
    THEN "IsAdminUser" ELSE "IsAuthenticated"

\* a viewset asking IsAuthenticated for every method
OrderViewSet_get_permissions_authenticated(method) == "IsAuthenticated"

OrderViewSet_get_permissions(method) ==
    IF method \in {"PUT", "PATCH", "DELETE"}
    THEN "IsAdminUser" ELSE "IsAuthenticated"

\* a user view open to the staff alone
UserView_get_permissions_admin_only(method) == "IsAdminUser"

\* UserView.get_permissions; the view serves POST and GET
UserView_get_permissions(method) ==
    IF method = "POST" THEN "IsNotAuthenticatedOrAdmin" ELSE "IsAdminUser"

\* ManageUserView.permission_classes
ManageUserView_get_permissions(method) == "IsAuthenticated"

get_permissions(resource, method) ==
    CASE resource = "airplanes" -> AirplaneViewSet_get_permissions(method)
      [] resource = "users"     -> UserView_get_permissions(method)
      [] resource = "me"        -> ManageUserView_get_permissions(method)
      [] resource = "crews"     -> CrewViewSet_get_permissions(method)
      [] resource = "airports"  -> AirportViewSet_get_permissions(method)
      [] resource = "flights"   -> FlightViewSet_get_permissions(method)
      [] resource = "orders"    -> OrderViewSet_get_permissions(method)

\* the status of a refused request: 401 without credentials, 403 with
\* insufficient ones
DeniedStatus(u) == IF is_authenticated(u) THEN 403 ELSE 401

Permitted(resource, method, u) ==
    has_permission(get_permissions(resource, method), u)

\* the response of a request; query holds the query parameters of a GET on
\* the orders
RespondQuery(resource, method, u, status, data, error, query) ==
    response' = [resource |-> resource, method |-> method, caller |-> u,
                 status |-> status, data |-> data, error |-> error,
                 query |-> query]

Respond(resource, method, u, status, data, error) ==
    RespondQuery(resource, method, u, status, data, error, << >>)

NoResponse ==
    [resource |-> "", method |-> "", caller |-> Anonymous, status |-> 0,
     data |-> {}, error |-> "", query |-> << >>]

\* a request refused by check_permissions: the handler body never runs
RefuseQuery(resource, method, u, query) ==
    /\ ~Permitted(resource, method, u)
    /\ RespondQuery(resource, method, u, DeniedStatus(u), {}, "denied", query)
    /\ UNCHANGED <<users, airplanes, crews, airports, routes, flights, orders,
                   tickets, seq, now, reqs, probe, settings>>

Refuse(resource, method, u) == RefuseQuery(resource, method, u, << >>)

\* a request that passed check_permissions and failed later
RejectQuery(resource, method, u, status, error, query) ==
    /\ RespondQuery(resource, method, u, status, {}, error, query)
    /\ UNCHANGED <<users, airplanes, crews, airports, routes, flights, orders,
                   tickets, seq, now, reqs, probe, settings>>

Reject(resource, method, u, status, error) ==
    RejectQuery(resource, method, u, status, error, << >>)

\* GET on a collection
List(resource, table, u) ==
    \/ Refuse(resource, "GET", u)
    \/ /\ Permitted(resource, "GET", u)
       /\ Respond(resource, "GET", u, 200, DOMAIN table, "")
       /\ UNCHANGED <<users, airplanes, crews, airports, routes, flights,
                      orders, tickets, seq, now, reqs, probe, settings>>

\* GET on one row: get_object is 404 when the key names no row
Retrieve(resource, table, u, id) ==
    \/ Refuse(resource, "GET", u)
    \/ /\ Permitted(resource, "GET", u)
       /\ IF id \in DOMAIN table
          THEN Respond(resource, "GET", u, 200, {id}, "")
          ELSE Respond(resource, "GET", u, 404, {}, "not found")
       /\ UNCHANGED <<users, airplanes, crews, airports, routes, flights,
                      orders, tickets, seq, now, reqs, probe, settings>>

----------------------------------------------------------------------------
(* Cascades of the foreign keys (on_delete=CASCADE)                        *)

FlightsOfAirplanes(ids) == {f \in DOMAIN flights : flights[f].airplane \in ids}

FlightsOfRoutes(ids) == {f \in DOMAIN flights : flights[f].route \in ids}

RoutesOfAirports(ids) ==
    {r \in DOMAIN routes : routes[r].source \in ids \/ routes[r].destination \in ids}

TicketsOfFlights(ids) == {t \in DOMAIN tickets : tickets[t].flight \in ids}

\* Ticket.order with on_delete=DO_NOTHING
TicketsOfOrders_do_nothing(ids) == {}

TicketsOfOrders(ids) == {t \in DOMAIN tickets : tickets[t].order \in ids}

OrdersOfUsers(names) == {o \in DOMAIN orders : orders[o].user \in names}

----------------------------------------------------------------------------
(* AirplaneViewSet                                                         *)

AirplaneFields == {"rows", "seats_in_row"}

\* Airplane.total_seats
total_seats(airplane) == airplane.rows * airplane.seats_in_row

\* int() of the text of a query parameter: a sequence of characters, an
\* optional sign followed by decimal digits; anything else is a ValueError
DigitChars == <<"0", "1", "2", "3", "4", "5", "6", "7", "8", "9">>

digit(c) == (CHOOSE i \in DOMAIN DigitChars : DigitChars[i] = c) - 1

unsigned(text) == IF Len(text) > 0 /\ text[1] = "-" THEN Tail(text) ELSE text

is_int_literal(text) ==
    /\ Len(unsigned(text)) > 0
    /\ \A i \in DOMAIN unsigned(text) :
          \E d \in DOMAIN DigitChars : DigitChars[d] = unsigned(text)[i]

RECURSIVE int_digits(_)
int_digits(text) ==
    IF Len(text) = 0 THEN 0
    ELSE 10 * int_digits(SubSeq(text, 1, Len(text) - 1)) + digit(text[Len(text)])

int(text) ==
    IF Len(text) > 0 /\ text[1] = "-"
    THEN 0 - int_digits(Tail(text)) ELSE int_digits(text)

\* query_params.get(name) is None or "" when the parameter is absent or empty
Truthy(params, name) == name \in DOMAIN params /\ Len(params[name]) > 0

AirplaneViewSet_get_queryset_lt(params) ==
    IF Truthy(params, "total_seats")
    THEN {a \in DOMAIN airplanes :
             total_seats(airplanes[a]) < int(params.total_seats)}
    ELSE DOMAIN airplanes

\* AirplaneViewSet.get_queryset: total_seats_in_plane__lte=int(total_seats)
AirplaneViewSet_get_queryset(params) ==
    IF Truthy(params, "total_seats")
    THEN {a \in DOMAIN airplanes :
             total_seats(airplanes[a]) <= int(params.total_seats)}
    ELSE DOMAIN airplanes

\* GET on the collection with its query parameters
AirplaneListWith(u, params) ==
    \/ RefuseQuery("airplanes", "GET", u, params)
    \/ /\ Permitted("airplanes", "GET", u)
       /\ IF Truthy(params, "total_seats") /\ ~is_int_literal(params.total_seats)
          THEN RespondQuery("airplanes", "GET", u, 500, {}, "ValueError", params)
          ELSE RespondQuery("airplanes", "GET", u, 200,
                            AirplaneViewSet_get_queryset(params), "", params)
       /\ UNCHANGED <<users, airplanes, crews, airports, routes, flights,
                      orders, tickets, seq, now, reqs, probe, settings>>

AirplaneList(u) == AirplaneListWith(u, << >>)

\* the fields of AirplaneDetailSerializer that the seats depend on
AirplaneDetailSerializer(id) == <<id, total_seats(airplanes[id])>>

AirplaneRetrieve(u, id) ==
    \/ RefuseQuery("airplanes", "GET", u, [pk |-> id])
    \/ /\ Permitted("airplanes", "GET", u)
       /\ IF id \in DOMAIN airplanes
          THEN RespondQuery("airplanes", "GET", u, 200,
                            {AirplaneDetailSerializer(id)}, "", [pk |-> id])
          ELSE RespondQuery("airplanes", "GET", u, 404, {}, "not found",
                            [pk |-> id])
       /\ UNCHANGED <<users, airplanes, crews, airports, routes, flights,
                      orders, tickets, seq, now, reqs, probe, settings>>

AirplaneCreate(u, data) ==
    \/ Refuse("airplanes", "POST", u)
    \/ /\ Permitted("airplanes", "POST", u)
       /\ IF ~Has(data, AirplaneFields)
          THEN Reject("airplanes", "POST", u, 400, "required")
          ELSE /\ airplanes' = Insert(airplanes, NextVal("airplanes"),
                                      [rows |-> data.rows,
                                       seats_in_row |-> data.seats_in_row])
               /\ seq' = Advance("airplanes")
               /\ Respond("airplanes", "POST", u, 201, {NextVal("airplanes")}, "")
               /\ UNCHANGED <<users, crews, airports, routes, flights, orders,
                              tickets, now, reqs, probe, settings>>

\* PUT (every field required) and PATCH (partial=True)
AirplaneUpdate(u, method, id, data) ==
    \/ Refuse("airplanes", method, u)
    \/ /\ Permitted("airplanes", method, u)
       /\ IF id \notin DOMAIN airplanes
          THEN Reject("airplanes", method, u, 404, "not found")
          ELSE IF method = "PUT" /\ ~Has(data, AirplaneFields)
          THEN Reject("airplanes", method, u, 400, "required")
          ELSE /\ airplanes' =
                     [airplanes EXCEPT ![id] =
                         [rows |-> Given(data, "rows", @.rows),
                          seats_in_row |-> Given(data, "seats_in_row", @.seats_in_row)]]
               /\ Respond("airplanes", method, u, 200, {id}, "")
               /\ UNCHANGED <<users, crews, airports, routes, flights, orders,
                              tickets, seq, now, reqs, probe, settings>>

AirplaneDestroy(u, id) ==
    \/ Refuse("airplanes", "DELETE", u)
    \/ /\ Permitted("airplanes", "DELETE", u)
       /\ IF id \notin DOMAIN airplanes
          THEN Reject("airplanes", "DELETE", u, 404, "not found")
          ELSE /\ airplanes' = Remove(airplanes, {id})
               /\ flights' = Remove(flights, FlightsOfAirplanes({id}))
               /\ tickets' = Remove(tickets, TicketsOfFlights(FlightsOfAirplanes({id})))
               /\ Respond("airplanes", "DELETE", u, 204, {}, "")
               /\ UNCHANGED <<users, crews, airports, routes, orders, seq, now,
                              reqs, probe, settings>>

----------------------------------------------------------------------------
(* CrewViewSet                                                             *)

TitleCrew == {"Captain", "Co-Pilot", "Flight Attendant", "Flight Engineer",
              "Flight Medic"}

CrewList(u) == List("crews", crews, u)

CrewRetrieve(u, id) == Retrieve("crews", crews, u, id)

CrewCreate(u, data) ==
    \/ Refuse("crews", "POST", u)
    \/ /\ Permitted("crews", "POST", u)
       /\ IF ~Has(data, {"title"}) \/ data.title \notin TitleCrew
          THEN Reject("crews", "POST", u, 400, "invalid")
          ELSE /\ crews' = Insert(crews, NextVal("crews"), [title |-> data.title])
               /\ seq' = Advance("crews")
               /\ Respond("crews", "POST", u, 201, {NextVal("crews")}, "")
               /\ UNCHANGED <<users, airplanes, airports, routes, flights,
                              orders, tickets, now, reqs, probe, settings>>

CrewUpdate(u, method, id, data) ==
    \/ Refuse("crews", method, u)
    \/ /\ Permitted("crews", method, u)
       /\ IF id \notin DOMAIN crews
          THEN Reject("crews", method, u, 404, "not found")
          ELSE IF \/ method = "PUT" /\ ~Has(data, {"title"})
                  \/ Has(data, {"title"}) /\ data.title \notin TitleCrew
          THEN Reject("crews", method, u, 400, "invalid")
          ELSE /\ crews' = [crews EXCEPT ![id] =
                               [title |-> Given(data, "title", @.title)]]
               /\ Respond("crews", method, u, 200, {id}, "")
               /\ UNCHANGED <<users, airplanes, airports, routes, flights,
                              orders, tickets, seq, now, reqs, probe, settings>>

\* the rows of the many-to-many table go with the crew member
CrewDestroy(u, id) ==
    \/ Refuse("crews", "DELETE", u)
    \/ /\ Permitted("crews", "DELETE", u)
       /\ IF id \notin DOMAIN crews
          THEN Reject("crews", "DELETE", u, 404, "not found")
          ELSE /\ crews' = Remove(crews, {id})
               /\ flights' = [f \in DOMAIN flights |->
                                 [flights[f] EXCEPT !.crew = @ \ {id}]]
               /\ Respond("crews", "DELETE", u, 204, {}, "")
               /\ UNCHANGED <<users, airplanes, airports, routes, orders,
                              tickets, seq, now, reqs, probe, settings>>

----------------------------------------------------------------------------
(* Airport: str.isalpha, str.isupper, str.upper over a small alphabet with *)
(* a lower-case letter, an upper-case letter, a letter without case and a  *)
(* digit. A code is a sequence of characters.                              *)

LowerLetters == {"a"}

UpperLetters == {"A"}

UncasedLetters == {"aleph"}

Digits == {"1"}

Alphabet == LowerLetters \cup UpperLetters \cup UncasedLetters \cup Digits

\* "".isalpha() is False
isalpha(code) ==
    /\ Len(code) > 0
    /\ \A i \in 1..Len(code) :
          code[i] \in LowerLetters \cup UpperLetters \cup UncasedLetters

\* true when there is a cased character and none of them is lower-case
isupper(code) ==
    /\ \E i \in 1..Len(code) : code[i] \in LowerLetters \cup UpperLetters
    /\ \A i \in 1..Len(code) : code[i] \notin LowerLetters

upper_char(c) == IF c = "a" THEN "A" ELSE c

upper(code) == [i \in 1..Len(code) |-> upper_char(code[i])]

\* pycountry.countries.get(name=...) is not None
ReferenceCountries == {"Yemen", "Denmark"}

\* a lookup that finds every name
CountryAlwaysExists(country) == TRUE

CountryExists(country) == country \in ReferenceCountries

\* Airport.clean without its upper-casing of the code
Airport_clean_as_submitted(airport) ==
    IF ~isalpha(airport.code)
    THEN [error |-> "Code can only contain letters", code |-> airport.code]
    ELSE IF airport.country = ""
    THEN [error |-> "Country is required", code |-> airport.code]
    ELSE IF ~CountryExists(airport.country)
    THEN [error |-> "Country not found", code |-> airport.code]
    ELSE [error |-> "", code |-> airport.code]

\* Airport.clean: the error raised ("" when none) and the code after it
Airport_clean(airport) ==
    IF ~isalpha(airport.code)
    THEN [error |-> "Code can only contain letters", code |-> airport.code]
    ELSE LET code == IF Len(airport.code) > 0 /\ ~isupper(airport.code)
                     THEN upper(airport.code) ELSE airport.code
         IN IF airport.country = ""
            THEN [error |-> "Country is required", code |-> code]
            ELSE IF ~CountryExists(airport.country)
            THEN [error |-> "Country not found", code |-> code]
            ELSE [error |-> "", code |-> code]

\* max_length of Airport.code
AirportCodeMaxLength == 3

AirportFields == {"code", "country"}

\* AirportSerializer.is_valid: required fields (unless partial), CharField
\* (not blank, max_length) and the UniqueValidator of the unique code
AirportSerializer_errors(data, partial, instance) ==
    IF ~partial /\ ~Has(data, AirportFields) THEN "required"
    ELSE IF Has(data, {"code"}) /\ Len(data.code) = 0 THEN "blank"
    ELSE IF Has(data, {"code"}) /\ Len(data.code) > AirportCodeMaxLength THEN "max_length"
    ELSE IF Has(data, {"country"}) /\ data.country = "" THEN "blank"
    ELSE IF /\ Has(data, {"code"})
            /\ \E a \in DOMAIN airports \ {instance} : airports[a].code = data.code
    THEN "unique"
    ELSE ""

\* Airport.save on the row `id` holding `airport`: clean, then the INSERT or
\* UPDATE, which the unique index on code can refuse
Airport_save(resource_method, u, id, airport, ok_status, seq_after, data) ==
    LET cleaned == Airport_clean(airport)
        row == [code |-> cleaned.code, country |-> airport.country]
    IN IF cleaned.error # ""
       THEN RejectQuery("airports", resource_method, u, 400, cleaned.error, data)
       ELSE IF \E a \in DOMAIN airports \ {id} : airports[a].code = row.code
       THEN RejectQuery("airports", resource_method, u, 500, "IntegrityError",
                        data)
       ELSE /\ airports' = Insert(airports, id, row)
            /\ seq' = seq_after
            /\ RespondQuery("airports", resource_method, u, ok_status, {id}, "",
                            data)
            /\ UNCHANGED <<users, airplanes, crews, routes, flights, orders,
                           tickets, now, reqs, probe, settings>>

AirportList(u) == List("airports", airports, u)

\* AirportDetailSerializer.get_weather asks the weather service, and raises
\* RuntimeError when its answer is not 200
AirportRetrieve(u, id, weather_ok) ==
    \/ Refuse("airports", "GET", u)
    \/ /\ Permitted("airports", "GET", u)
       /\ IF id \notin DOMAIN airports
          THEN Respond("airports", "GET", u, 404, {}, "not found")
          ELSE IF ~weather_ok
          THEN Respond("airports", "GET", u, 500, {}, "RuntimeError")
          ELSE Respond("airports", "GET", u, 200, {id}, "")
       /\ UNCHANGED <<users, airplanes, crews, airports, routes, flights,
                      orders, tickets, seq, now, reqs, probe, settings>>

AirportCreate(u, data) ==
    \/ RefuseQuery("airports", "POST", u, data)
    \/ /\ Permitted("airports", "POST", u)
       /\ LET error == AirportSerializer_errors(data, FALSE, 0)
          IN IF error # ""
             THEN RejectQuery("airports", "POST", u, 400, error, data)
             ELSE Airport_save("POST", u, NextVal("airports"),
                               [code |-> data.code, country |-> data.country],
                               201, Advance("airports"), data)

AirportUpdate(u, method, id, data) ==
    \/ RefuseQuery("airports", method, u, data)
    \/ /\ Permitted("airports", method, u)
       /\ IF id \notin DOMAIN airports
          THEN RejectQuery("airports", method, u, 404, "not found", data)
          ELSE LET error == AirportSerializer_errors(data, method = "PATCH", id)
               IN IF error # ""
                  THEN RejectQuery("airports", method, u, 400, error, data)
                  ELSE Airport_save(method, u, id,
                           [code |-> Given(data, "code", airports[id].code),
                            country |-> Given(data, "country", airports[id].country)],
                           200, seq, data)

AirportDestroy(u, id) ==
    \/ Refuse("airports", "DELETE", u)
    \/ /\ Permitted("airports", "DELETE", u)
       /\ IF id \notin DOMAIN airports
          THEN Reject("airports", "DELETE", u, 404, "not found")
          ELSE LET gone_routes == RoutesOfAirports({id})
                   gone_flights == FlightsOfRoutes(gone_routes)
               IN /\ airports' = Remove(airports, {id})
                  /\ routes' = Remove(routes, gone_routes)
                  /\ flights' = Remove(flights, gone_flights)
                  /\ tickets' = Remove(tickets, TicketsOfFlights(gone_flights))
                  /\ Respond("airports", "DELETE", u, 204, {}, "")
                  /\ UNCHANGED <<users, airplanes, crews, orders, seq, now,
                                 reqs, probe, settings>>

----------------------------------------------------------------------------
(* Route.clean and Flight.clean: defined by the models, called by no       *)
(* serializer and by no save()                                             *)

Route_clean(route) ==
    IF route.source = route.destination
    THEN "Source and destination cannot be the same" ELSE ""

Flight_clean(flight, time) ==
    IF flight.departure_time < time
    THEN "Departure time cannot be in the past"
    ELSE IF flight.arrival_time < flight.departure_time
    THEN "Arrival time cannot be before departure time"
    ELSE IF flight.arrival_time < time
    THEN "Arrival time cannot be in the past"
    ELSE ""

\* a clean asking about the arrival first
Flight_clean_at_arrival_first(flight, first_now, second_now) ==
    IF flight.arrival_time < second_now
    THEN "Arrival time cannot be in the past"
    ELSE IF flight.departure_time < first_now
    THEN "Departure time cannot be in the past"
    ELSE IF flight.arrival_time < flight.departure_time
    THEN "Arrival time cannot be before departure time"
    ELSE ""

\* Flight.clean with its two readings of timezone.now(), the second not
\* before the first
Flight_clean_at(flight, first_now, second_now) ==
    IF flight.departure_time < first_now
    THEN "Departure time cannot be in the past"
    ELSE IF flight.arrival_time < flight.departure_time
    THEN "Arrival time cannot be before departure time"
    ELSE IF flight.arrival_time < second_now
    THEN "Arrival time cannot be in the past"
    ELSE ""

\* flight.clean() called on an instance, as the tests of the model do
CallFlightClean ==
    /\ ~probe.called
    /\ probe' = [probe EXCEPT
                    !.called = TRUE,
                    !.result = Flight_clean_at(probe.flight, probe.first_now,
                                               probe.second_now)]
    /\ UNCHANGED <<users, airplanes, crews, airports, routes, flights, orders,
                   tickets, seq, now, reqs, response, settings>>

----------------------------------------------------------------------------
(* FlightViewSet / FlightSerializer                                        *)

FlightFields == {"route", "airplane", "crew", "departure_time", "arrival_time"}

RouteFields == {"source", "destination"}

\* FlightSerializer.is_valid: required fields (unless partial), the nested
\* RouteSerializer, and the primary keys, which must name existing rows
FlightSerializer_errors(data, partial) ==
    IF ~partial /\ ~Has(data, FlightFields) THEN "required"
    ELSE IF Has(data, {"route"}) /\ ~partial /\ ~Has(data.route, RouteFields)
    THEN "required"
    ELSE IF /\ Has(data, {"route"})
            /\ \E k \in DOMAIN data.route : data.route[k] \notin DOMAIN airports
    THEN "does_not_exist"
    ELSE IF Has(data, {"airplane"}) /\ data.airplane \notin DOMAIN airplanes
    THEN "does_not_exist"
    ELSE IF Has(data, {"crew"}) /\ data.crew = {} THEN "empty"
    ELSE IF Has(data, {"crew"}) /\ ~(data.crew \subseteq DOMAIN crews)
    THEN "does_not_exist"
    ELSE ""

\* an annotation counting every ticket, whatever its flight
available_seats_of_all_tickets(flight_id) ==
    airplanes[flights[flight_id].airplane].rows
        * airplanes[flights[flight_id].airplane].seats_in_row
        - Cardinality({t \in DOMAIN tickets : tickets[t].tx = Committed})

\* FlightViewSet.queryset: annotate(available_seats=F("airplane__rows") *
\* F("airplane__seats_in_row") - Count("tickets")), over the committed rows
available_seats(flight_id) ==
    airplanes[flights[flight_id].airplane].rows
        * airplanes[flights[flight_id].airplane].seats_in_row
        - Cardinality({t \in DOMAIN tickets :
                          /\ tickets[t].tx = Committed
                          /\ tickets[t].flight = flight_id})

\* FlightListSerializer / FlightDetailSerializer: the id of a flight with
\* its available_seats
FlightListSerializer(flight_id) == <<flight_id, available_seats(flight_id)>>

FlightList(u) ==
    \/ Refuse("flights", "GET", u)
    \/ /\ Permitted("flights", "GET", u)
       /\ Respond("flights", "GET", u, 200,
                  {FlightListSerializer(f) : f \in DOMAIN flights}, "")
       /\ UNCHANGED <<users, airplanes, crews, airports, routes, flights,
                      orders, tickets, seq, now, reqs, probe, settings>>

FlightRetrieve(u, id) ==
    \/ Refuse("flights", "GET", u)
    \/ /\ Permitted("flights", "GET", u)
       /\ IF id \in DOMAIN flights
          THEN Respond("flights", "GET", u, 200, {FlightListSerializer(id)}, "")
          ELSE Respond("flights", "GET", u, 404, {}, "not found")
       /\ UNCHANGED <<users, airplanes, crews, airports, routes, flights,
                      orders, tickets, seq, now, reqs, probe, settings>>

\* FlightSerializer.create: Route.objects.create, Flight.objects.create,
\* flight.crew.set
FlightSerializer_create(u, data) ==
    /\ routes' = Insert(routes, NextVal("routes"),
                        [source |-> data.route.source,
                         destination |-> data.route.destination])
    /\ flights' = Insert(flights, NextVal("flights"),
                         [route |-> NextVal("routes"),
                          airplane |-> data.airplane,
                          crew |-> data.crew,
                          departure_time |-> data.departure_time,
                          arrival_time |-> data.arrival_time])
    /\ seq' = [seq EXCEPT !["routes"] = @ + 1, !["flights"] = @ + 1]
    /\ Respond("flights", "POST", u, 201, {NextVal("flights")}, "")
    /\ UNCHANGED <<users, airplanes, crews, airports, orders, tickets, now,
                   reqs, probe, settings>>

FlightCreate(u, data) ==
    \/ Refuse("flights", "POST", u)
    \/ /\ Permitted("flights", "POST", u)
       /\ LET error == FlightSerializer_errors(data, FALSE)
          IN IF error # ""
             THEN Reject("flights", "POST", u, 400, error)
             ELSE FlightSerializer_create(u, data)

\* FlightSerializer.update: validated_data.pop("route") and .pop("crew")
\* raise KeyError when the body carries none; then the flight is saved, the
\* crew set, and the flight's route row changed in place
FlightSerializer_update(u, method, id, data) ==
    IF ~Has(data, {"route"}) \/ ~Has(data, {"crew"})
    THEN Reject("flights", method, u, 500, "KeyError")
    ELSE LET instance == flights[id]
             route == routes[instance.route]
         IN /\ flights' =
                  [flights EXCEPT ![id] =
                      [route |-> instance.route,
                       airplane |-> Given(data, "airplane", instance.airplane),
                       crew |-> data.crew,
                       departure_time |->
                           Given(data, "departure_time", instance.departure_time),
                       arrival_time |->
                           Given(data, "arrival_time", instance.arrival_time)]]
            /\ routes' =
                  [routes EXCEPT ![instance.route] =
                      [source |-> Given(data.route, "source", route.source),
                       destination |->
                           Given(data.route, "destination", route.destination)]]
            /\ Respond("flights", method, u, 200, {id}, "")
            /\ UNCHANGED <<users, airplanes, crews, airports, orders, tickets,
                           seq, now, reqs, probe, settings>>

FlightUpdate(u, method, id, data) ==
    \/ Refuse("flights", method, u)
    \/ /\ Permitted("flights", method, u)
       /\ IF id \notin DOMAIN flights
          THEN Reject("flights", method, u, 404, "not found")
          ELSE LET error == FlightSerializer_errors(data, method = "PATCH")
               IN IF error # ""
                  THEN Reject("flights", method, u, 400, error)
                  ELSE FlightSerializer_update(u, method, id, data)

FlightDestroy(u, id) ==
    \/ Refuse("flights", "DELETE", u)
    \/ /\ Permitted("flights", "DELETE", u)
       /\ IF id \notin DOMAIN flights
          THEN Reject("flights", "DELETE", u, 404, "not found")
          ELSE /\ flights' = Remove(flights, {id})
               /\ tickets' = Remove(tickets, TicketsOfFlights({id}))
               /\ Respond("flights", "DELETE", u, 204, {}, "")
               /\ UNCHANGED <<users, airplanes, crews, airports, routes,
                              orders, seq, now, reqs, probe, settings>>

\* the clock moves on
Tick(limit) ==
    /\ now < limit
    /\ now' = now + 1
    /\ UNCHANGED <<users, airplanes, crews, airports, routes, flights, orders,
                   tickets, seq, reqs, response, probe, settings>>

----------------------------------------------------------------------------
(* Orders and tickets. The settings module decides whether a request runs   *)
(* in one database transaction (ATOMIC_REQUESTS) or commits each statement *)
(* on its own (autocommit); the serializers open no transaction of their   *)
(* own, so a deployment runs every order creation in the one mode or the   *)
(* other. The rows an open transaction has written carry its client in     *)
(* `tx` until it commits (tx = 0); its queries see the committed rows and  *)
(* its own; the unique index on (flight, row, seat) sees every row.        *)

\* the deployments: with and without the per-request transaction
Settings == [ATOMIC_REQUESTS : BOOLEAN]

\* the transaction the statements of a request of client c write in
TxOf(c) == IF settings.ATOMIC_REQUESTS THEN c ELSE Committed

Idle == [pc |-> "idle", user |-> Anonymous, tickets |-> << >>, order |-> 0, i |-> 0]

SameSeat(t, ticket_data) ==
    /\ tickets[t].flight = ticket_data.flight
    /\ tickets[t].row = ticket_data.row
    /\ tickets[t].seat = ticket_data.seat

\* the tickets a query of transaction tx sees on the seat
SeenOnSeat(ticket_data, tx) ==
    {t \in DOMAIN tickets : SameSeat(t, ticket_data) /\ tickets[t].tx \in {Committed, tx}}

\* the tickets the unique index holds on the seat
IndexedOnSeat(ticket_data) == {t \in DOMAIN tickets : SameSeat(t, ticket_data)}

\* a ticket table without the unique index
UniqueIndexMissing(ticket_data) == FALSE

\* unique_together = ("flight", "row", "seat"), enforced by the index
UniqueIndexRefuses(ticket_data) == IndexedOnSeat(ticket_data) # {}

\* TicketSerializer.run_validation of one ticket of the list: the flight
\* primary key, the UniqueTogetherValidator, then validate()
TicketSerializer_errors(ticket_data, tx) ==
    IF ticket_data.flight \notin DOMAIN flights THEN "does_not_exist"
    ELSE IF flights[ticket_data.flight].airplane \notin DOMAIN airplanes
    THEN "does_not_exist"
    ELSE IF SeenOnSeat(ticket_data, tx) # {} THEN "unique"
    ELSE validate_ticket(ticket_data.row, ticket_data.seat,
                         airplanes[flights[ticket_data.flight].airplane]).field

\* OrderSerializer.is_valid: tickets is required (unless partial) and
\* allow_empty=False; the first ticket in error decides
OrderSerializer_errors(data, partial, tx) ==
    IF ~Has(data, {"tickets"}) THEN (IF partial THEN "" ELSE "required")
    ELSE IF Len(data.tickets) = 0 THEN "empty"
    ELSE IF \E i \in 1..Len(data.tickets) :
                TicketSerializer_errors(data.tickets[i], tx) # ""
    THEN LET first == CHOOSE i \in 1..Len(data.tickets) :
                 /\ TicketSerializer_errors(data.tickets[i], tx) # ""
                 /\ \A j \in 1..(i - 1) :
                       TicketSerializer_errors(data.tickets[j], tx) = ""
         IN TicketSerializer_errors(data.tickets[first], tx)
    ELSE ""

\* validated_data of a ticket: the Flight instance the serializer fetched
\* keeps the Airplane it read in validate()
Validated(ticket_data) ==
    [flight |-> ticket_data.flight, row |-> ticket_data.row,
     seat |-> ticket_data.seat,
     airplane |-> airplanes[flights[ticket_data.flight].airplane]]

\* Ticket.full_clean in Ticket.save: clean() on the cached airplane (a
\* rest_framework ValidationError, 400), then the flight key and
\* validate_unique (django ValidationErrors, which nothing handles: 500)
Ticket_full_clean(ticket, order, tx) ==
    LET range == validate_ticket(ticket.row, ticket.seat, ticket.airplane)
    IN IF range # NoError THEN [status |-> 400, error |-> range.field]
       ELSE IF \/ ticket.flight \notin DOMAIN flights
               \/ order \notin DOMAIN orders
               \/ orders[order].tx \notin {Committed, tx}
       THEN [status |-> 500, error |-> "does_not_exist"]
       ELSE IF SeenOnSeat(ticket, tx) # {}
       THEN [status |-> 500, error |-> "unique_together"]
       ELSE [status |-> 200, error |-> ""]

\* the rows a transaction wrote, gone when it rolls back
OrdersOfTx(tx) == {o \in DOMAIN orders : tx # Committed /\ orders[o].tx = tx}

TicketsOfTx(tx) == {t \in DOMAIN tickets : tx # Committed /\ tickets[t].tx = tx}

Rollback(c, status, error) ==
    /\ orders' = Remove(orders, OrdersOfTx(TxOf(c)))
    /\ tickets' = Remove(tickets, TicketsOfTx(TxOf(c)))
    /\ reqs' = [reqs EXCEPT ![c] = Idle]
    /\ Respond("orders", "POST", reqs[c].user, status, {}, error)
    /\ UNCHANGED <<users, airplanes, crews, airports, routes, flights, seq,
                   now, probe, settings>>

\* the ticket ids the requests in flight still need
Reserved ==
    LET need(c) == IF reqs[c].pc = "idle" THEN 0
                   ELSE Len(reqs[c].tickets) - reqs[c].i + 1
        sum[S \in SUBSET DOMAIN reqs] ==
            IF S = {} THEN 0
            ELSE LET c == CHOOSE x \in S : TRUE IN need(c) + sum[S \ {c}]
    IN sum[DOMAIN reqs]

\* an owner taken from the request body when it names one
OrderSerializer_create_user_from_body(u, data) == Given(data, "user", u)

\* OrderSerializer.create: validated_data["user"] = request.user, whatever
\* the body holds
OrderSerializer_create_user(u, data) == u

\* POST /orders/: check_permissions, OrderSerializer.is_valid, and the
\* Order.objects.create of OrderSerializer.create with user = request.user
OrderCreateBegin(c, u, data, max_order, max_ticket) ==
    /\ reqs[c].pc = "idle"
    /\ \/ Refuse("orders", "POST", u)
       \/ /\ Permitted("orders", "POST", u)
          /\ LET error == OrderSerializer_errors(data, FALSE, TxOf(c))
             IN IF error # ""
                THEN Reject("orders", "POST", u, 400, error)
                ELSE /\ NextVal("orders") <= max_order
                     /\ NextVal("tickets") + Reserved + Len(data.tickets) - 1
                            <= max_ticket
                     /\ orders' = Insert(orders, NextVal("orders"),
                                         [user |-> OrderSerializer_create_user(u, data),
                                          tx |-> TxOf(c)])
                     /\ seq' = Advance("orders")
                     /\ reqs' = [reqs EXCEPT ![c] =
                            [pc |-> "clean", user |-> u,
                             tickets |-> [i \in 1..Len(data.tickets) |->
                                             Validated(data.tickets[i])],
                             order |-> NextVal("orders"), i |-> 1]]
                     /\ UNCHANGED <<users, airplanes, crews, airports, routes,
                                    flights, tickets, now, response, probe, settings>>

\* Ticket.save of the i-th ticket, first half: self.full_clean()
OrderCreateClean(c) ==
    /\ reqs[c].pc = "clean"
    /\ LET result == Ticket_full_clean(reqs[c].tickets[reqs[c].i],
                                       reqs[c].order, TxOf(c))
       IN IF result.error # ""
          THEN Rollback(c, result.status, result.error)
          ELSE /\ reqs' = [reqs EXCEPT ![c].pc = "insert"]
               /\ UNCHANGED <<users, airplanes, crews, airports, routes,
                              flights, orders, tickets, seq, now, response,
                              probe, settings>>

\* an INSERT on a seat that another open transaction has written waits for it
Blockers(c) ==
    {tickets[t].tx : t \in {x \in IndexedOnSeat(reqs[c].tickets[reqs[c].i]) :
                               tickets[x].tx \notin {Committed, TxOf(c)}}}

\* Ticket.save of the i-th ticket, second half: the INSERT; after the last
\* ticket the view answers 201 and the transaction commits
OrderCreateInsert(c) ==
    /\ reqs[c].pc = "insert"
    /\ Blockers(c) = {}
    /\ LET r == reqs[c]
           ticket == r.tickets[r.i]
       IN IF \/ ticket.flight \notin DOMAIN flights
             \/ r.order \notin DOMAIN orders
             \/ UniqueIndexRefuses(ticket)
          THEN Rollback(c, 500, "IntegrityError")
          ELSE LET inserted == Insert(tickets, NextVal("tickets"),
                                      [flight |-> ticket.flight, order |-> r.order,
                                       row |-> ticket.row, seat |-> ticket.seat,
                                       tx |-> TxOf(c)])
               IN /\ seq' = Advance("tickets")
                  /\ IF r.i < Len(r.tickets)
                     THEN /\ tickets' = inserted
                          /\ reqs' = [reqs EXCEPT ![c].pc = "clean", ![c].i = @ + 1]
                          /\ UNCHANGED <<orders, response>>
                     ELSE /\ tickets' =
                               [t \in DOMAIN inserted |->
                                   IF inserted[t].tx = TxOf(c)
                                   THEN [inserted[t] EXCEPT !.tx = Committed]
                                   ELSE inserted[t]]
                          /\ orders' =
                               [o \in DOMAIN orders |->
                                   IF orders[o].tx = TxOf(c)
                                   THEN [orders[o] EXCEPT !.tx = Committed]
                                   ELSE orders[o]]
                          /\ reqs' = [reqs EXCEPT ![c] = Idle]
                          /\ Respond("orders", "POST", r.user, 201, {r.order}, "")
                  /\ UNCHANGED <<users, airplanes, crews, airports, routes,
                                 flights, now, probe, settings>>

\* two transactions waiting for each other's seats: the database aborts one
OrderCreateDeadlock(c) ==
    /\ reqs[c].pc = "insert"
    /\ \E d \in DOMAIN reqs :
          /\ d \in Blockers(c)
          /\ reqs[d].pc = "insert"
          /\ TxOf(c) \in Blockers(d)
    /\ Rollback(c, 500, "deadlock detected")

\* the orders and tickets a request outside any order creation reads
CommittedOrders == {o \in DOMAIN orders : orders[o].tx = Committed}

CommittedTickets == {t \in DOMAIN tickets : tickets[t].tx = Committed}

\* rows of the join orders x tickets for one order and one flight
JoinRows(o, flight_id) ==
    Cardinality({t \in CommittedTickets :
                    tickets[t].order = o /\ tickets[t].flight = flight_id})

\* a queryset without the filter on the owner
OrderViewSet_get_queryset_unfiltered(user, params) ==
    LET by_order == IF Has(params, {"order_id"})
                    THEN {o \in CommittedOrders : o = params.order_id}
                    ELSE CommittedOrders
        by_flight == IF Has(params, {"flight_id"})
                     THEN {o \in by_order : JoinRows(o, params.flight_id) > 0}
                     ELSE by_order
    IN [o \in by_flight |-> IF Has(params, {"flight_id"})
                            THEN JoinRows(o, params.flight_id) ELSE 1]

\* OrderViewSet.get_queryset: the bag of the rows of the query (order id ->
\* number of rows); params is the record of the query parameters given
OrderViewSet_get_queryset(user, params) ==
    LET owned == IF ~is_staff(user)
                 THEN {o \in CommittedOrders : orders[o].user = user}
                 ELSE CommittedOrders
        by_order == IF Has(params, {"order_id"})
                    THEN {o \in owned : o = params.order_id} ELSE owned
        by_flight == IF Has(params, {"flight_id"})
                     THEN {o \in by_order : JoinRows(o, params.flight_id) > 0}
                     ELSE by_order
        by_user == IF Has(params, {"user_id"}) /\ is_staff(user)
                   THEN {o \in by_flight : orders[o].user = params.user_id}
                   ELSE by_flight
    IN [o \in by_user |-> IF Has(params, {"flight_id"})
                          THEN JoinRows(o, params.flight_id) ELSE 1]

OrderList(u, params) ==
    \/ Refuse("orders", "GET", u)
    \/ /\ Permitted("orders", "GET", u)
       /\ RespondQuery("orders", "GET", u, 200,
                       DOMAIN OrderViewSet_get_queryset(u, params), "", params)
       /\ UNCHANGED <<users, airplanes, crews, airports, routes, flights,
                      orders, tickets, seq, now, reqs, probe, settings>>

\* get_object: queryset.get(pk=id) is 404 on no row, and raises
\* MultipleObjectsReturned on several
get_object_status(queryset, id) ==
    IF id \notin DOMAIN queryset THEN 404
    ELSE IF queryset[id] > 1 THEN 500 ELSE 200

OrderRetrieve(u, id, params) ==
    \/ Refuse("orders", "GET", u)
    \/ /\ Permitted("orders", "GET", u)
       /\ LET status == get_object_status(OrderViewSet_get_queryset(u, params), id)
          IN RespondQuery("orders", "GET", u, status,
                          IF status = 200 THEN {id} ELSE {},
                          CASE status = 200 -> ""
                            [] status = 404 -> "not found"
                            [] status = 500 -> "MultipleObjectsReturned",
                          params)
       /\ UNCHANGED <<users, airplanes, crews, airports, routes, flights,
                      orders, tickets, seq, now, reqs, probe, settings>>

\* OrderSerializer.update: validated_data.pop("tickets") raises KeyError when
\* the body carries none; created_at is not editable, so instance.save()
\* changes nothing; instance.tickets is a related manager, which has no
\* delete(): AttributeError
OrderSerializer_update(u, method, id, data) ==
    IF ~Has(data, {"tickets"})
    THEN Reject("orders", method, u, 500, "KeyError")
    ELSE Reject("orders", method, u, 500, "AttributeError")

OrderUpdate(u, method, id, data) ==
    \/ Refuse("orders", method, u)
    \/ /\ Permitted("orders", method, u)
       /\ IF get_object_status(OrderViewSet_get_queryset(u, << >>), id) # 200
          THEN Reject("orders", method, u, 404, "not found")
          ELSE LET error == OrderSerializer_errors(data, method = "PATCH", Committed)
               IN IF error # ""
                  THEN Reject("orders", method, u, 400, error)
                  ELSE OrderSerializer_update(u, method, id, data)

\* DELETE /orders/<id>/: the order goes, and its tickets with it
OrderDestroy(u, id) ==
    \/ Refuse("orders", "DELETE", u)
    \/ /\ Permitted("orders", "DELETE", u)
       /\ IF get_object_status(OrderViewSet_get_queryset(u, << >>), id) # 200
          THEN Reject("orders", "DELETE", u, 404, "not found")
          ELSE /\ orders' = Remove(orders, {id})
               /\ tickets' = Remove(tickets, TicketsOfOrders({id}))
               /\ Respond("orders", "DELETE", u, 204, {}, "")
               /\ UNCHANGED <<users, airplanes, crews, airports, routes,
                              flights, seq, now, reqs, probe, settings>>

----------------------------------------------------------------------------
(* get_serializer_class of the viewsets: the class is named by a string    *)

\* a viewset with serializer_class alone
AirplaneViewSet_get_serializer_class_default(action) == "AirplaneSerializer"

AirplaneViewSet_get_serializer_class(action) ==
    IF action = "list" THEN "AirplaneListSerializer"
    ELSE IF action = "retrieve" THEN "AirplaneDetailSerializer"
    ELSE "AirplaneSerializer"

CrewViewSet_get_serializer_class(action) ==
    IF action = "list" THEN "CrewListSerializer"
    ELSE IF action = "retrieve" THEN "CrewDetailSerializer"
    ELSE "CrewSerializer"

AirportViewSet_get_serializer_class(action) ==
    IF action = "list" THEN "AirportListSerializer"
    ELSE IF action = "retrieve" THEN "AirportDetailSerializer"
    ELSE "AirportSerializer"

FlightViewSet_get_serializer_class(action) ==
    IF action = "list" THEN "FlightListSerializer"
    ELSE IF action = "retrieve" THEN "FlightDetailSerializer"
    ELSE "FlightSerializer"

\* a viewset choosing by the action alone
OrderViewSet_get_serializer_class_for_staff(action, user) ==
    IF action = "list" THEN "OrderListForStaffSerializer"
    ELSE IF action = "retrieve" THEN "OrderDetailForStaffSerializer"
    ELSE "OrderSerializer"

OrderViewSet_get_serializer_class(action, user) ==
    IF action = "list" /\ is_staff(user) THEN "OrderListForStaffSerializer"
    ELSE IF action = "retrieve" /\ is_staff(user)
    THEN "OrderDetailForStaffSerializer"
    ELSE IF action = "list" THEN "OrderListSerializer"
    ELSE IF action = "retrieve" THEN "OrderDetailSerializer"
    ELSE "OrderSerializer"

get_serializer_class(viewset, action, user) ==
    CASE viewset = "airplanes" -> AirplaneViewSet_get_serializer_class(action)
      [] viewset = "crews"     -> CrewViewSet_get_serializer_class(action)
      [] viewset = "airports"  -> AirportViewSet_get_serializer_class(action)
      [] viewset = "flights"   -> FlightViewSet_get_serializer_class(action)
      [] viewset = "orders"    -> OrderViewSet_get_serializer_class(action, user)

\* Meta.fields of the order serializers
OrderSerializerFields ==
    [OrderSerializer |-> {"id", "tickets", "created_at"},
     OrderListSerializer |-> {"id", "created_at", "tickets"},
     OrderDetailSerializer |-> {"id", "created_at", "tickets"}]

\* view.action is set, then view.get_serializer_class() is called
CallGetSerializerClass(viewset, action, user) ==
    /\ probe' = [viewset |-> viewset, action |-> action, user |-> user,
                 called |-> TRUE,
                 result |-> get_serializer_class(viewset, action, user)]
    /\ UNCHANGED <<users, airplanes, crews, airports, routes, flights, orders,
                   tickets, seq, now, reqs, response, settings>>

----------------------------------------------------------------------------
(* Users: UserView (list, create) and ManageUserView (the caller's own     *)
(* account). A user is keyed by the e-mail address it logs in with; a      *)
(* password is a sequence of characters, stored hashed.                    *)

PasswordMinLength == 8

PasswordMaxLength == 64

\* a password of n characters c
Pw(n, c) == [i \in 1..n |-> c]

\* the password of the accounts of the tests
TestPassword == Pw(PasswordMinLength, "t")

\* django.contrib.auth.hashers.make_password
make_password(raw) == <<"pbkdf2_sha256", raw>>

\* a serializer taking is_staff from the body
UserSerializer_validated_all_writable(data) == data

\* UserSerializer.validated_data: read_only_fields are dropped from the body
UserSerializer_validated(data) ==
    [f \in DOMAIN data \ {"is_staff"} |-> data[f]]

\* UserSerializer.is_valid: email and password are required unless partial;
\* the e-mail is unique among the other users; the password has between 8
\* and 64 characters and passes validate_password (password_ok: the
\* validators are those of the settings)
UserSerializer_errors(data, partial, instance, password_ok) ==
    IF ~partial /\ ~Has(data, {"email", "password"}) THEN "required"
    ELSE IF Has(data, {"email"}) /\ data.email \in DOMAIN users \ {instance}
    THEN "unique"
    ELSE IF Has(data, {"password"}) /\ Len(data.password) = 0 THEN "blank"
    ELSE IF Has(data, {"password"}) /\ Len(data.password) < PasswordMinLength
    THEN "min_length"
    ELSE IF Has(data, {"password"}) /\ Len(data.password) > PasswordMaxLength
    THEN "max_length"
    ELSE IF Has(data, {"password"}) /\ ~password_ok THEN "password"
    ELSE ""

\* UserManager.create_user(**validated_data): is_staff keeps its default
\* unless the data carry it
create_user(validated_data) ==
    [is_staff |-> Given(validated_data, "is_staff", FALSE),
     password |-> make_password(validated_data.password),
     first_name |-> Given(validated_data, "first_name", "")]

\* UserSerializer.update: ModelSerializer.update sets the fields given, and
\* the password is set only when the body carries one
UserSerializer_update(instance, validated_data) ==
    [is_staff |-> Given(validated_data, "is_staff", instance.is_staff),
     password |-> IF Has(validated_data, {"password"})
                     /\ Len(validated_data.password) > 0
                  THEN make_password(validated_data.password)
                  ELSE instance.password,
     first_name |-> Given(validated_data, "first_name", instance.first_name)]

\* GET /users/
UserList(u) == List("users", users, u)

\* POST /users/
UserCreate(u, data, password_ok) ==
    \/ RefuseQuery("users", "POST", u, data)
    \/ /\ Permitted("users", "POST", u)
       /\ LET error == UserSerializer_errors(data, FALSE, Anonymous, password_ok)
          IN IF error # ""
             THEN RejectQuery("users", "POST", u, 400, error, data)
             ELSE /\ users' = Insert(users, data.email,
                                     create_user(UserSerializer_validated(data)))
                  /\ RespondQuery("users", "POST", u, 201, {data.email}, "", data)
                  /\ UNCHANGED <<airplanes, crews, airports, routes, flights,
                                 orders, tickets, seq, now, reqs, probe, settings>>

\* a view serving one fixed account
ManageUserView_get_object_first(u) == CHOOSE name \in DOMAIN users : name # u

\* ManageUserView.get_object: self.request.user
ManageUserView_get_object(u) == u

\* GET /me/
ManageUserRetrieve(u) ==
    \/ Refuse("me", "GET", u)
    \/ /\ Permitted("me", "GET", u)
       /\ Respond("me", "GET", u, 200, {ManageUserView_get_object(u)}, "")
       /\ UNCHANGED <<users, airplanes, crews, airports, routes, flights,
                      orders, tickets, seq, now, reqs, probe, settings>>

\* PUT and PATCH /me/; the bodies of the runs name the e-mail of an account
\* that exists, the caller's own or another's
ManageUserUpdate(u, method, data, password_ok) ==
    \/ RefuseQuery("me", method, u, data)
    \/ /\ Permitted("me", method, u)
       /\ LET instance == ManageUserView_get_object(u)
              error == UserSerializer_errors(data, method = "PATCH", instance,
                                             password_ok)
          IN IF error # ""
             THEN RejectQuery("me", method, u, 400, error, data)
             ELSE /\ users' = [users EXCEPT ![instance] =
                        UserSerializer_update(@, UserSerializer_validated(data))]
                  /\ RespondQuery("me", method, u, 200, {instance}, "", data)
                  /\ UNCHANGED <<airplanes, crews, airports, routes, flights,
                                 orders, tickets, seq, now, reqs, probe, settings>>

----------------------------------------------------------------------------
(* Model.delete() on the rows no view deletes (the admin site, the shell): *)
(* the collector follows the CASCADE keys. A row an open transaction       *)
(* refers to is locked by it, and the DELETE waits.                        *)

Route_delete(id) ==
    /\ id \in DOMAIN routes
    /\ routes' = Remove(routes, {id})
    /\ flights' = Remove(flights, FlightsOfRoutes({id}))
    /\ tickets' = Remove(tickets, TicketsOfFlights(FlightsOfRoutes({id})))
    /\ UNCHANGED <<users, airplanes, crews, airports, orders, seq, now, reqs,
                   response, probe, settings>>

User_delete(name) ==
    /\ name \in DOMAIN users
    /\ \A o \in OrdersOfUsers({name}) : orders[o].tx = Committed
    /\ users' = [n \in DOMAIN users \ {name} |-> users[n]]
    /\ orders' = Remove(orders, OrdersOfUsers({name}))
    /\ tickets' = Remove(tickets, TicketsOfOrders(OrdersOfUsers({name})))
    /\ UNCHANGED <<airplanes, crews, airports, routes, flights, seq, now,
                   reqs, response, probe, settings>>

----------------------------------------------------------------------------
(* Initial states                                                          *)

\* two customers and one member of staff (create_user / is_staff=True)
InitUsers ==
    [u \in {"alice", "bob", "admin"} |->
        [is_staff |-> u = "admin", password |-> make_password(TestPassword),
         first_name |-> ""]]

InitSeq == [t \in {"airplanes", "crews", "airports", "routes", "flights",
                   "orders", "tickets"} |-> 1]

NoProbe == [row |-> 0, seat |-> 0, rows |-> 0, seats_in_row |-> 0,
            called |-> FALSE, result |-> NoError]

\* the reference data of the bookings: two airports and a crew member
SeedAirports == <<[code |-> <<"A">>, country |-> "Yemen"],
                  [code |-> <<"A", "A">>, country |-> "Denmark"]>>

SeedCrews == <<[title |-> "Captain"]>>

InitEmpty ==
    /\ users = InitUsers
    /\ airplanes = EmptyTable
    /\ crews = EmptyTable
    /\ airports = EmptyTable
    /\ routes = EmptyTable
    /\ flights = EmptyTable
    /\ orders = EmptyTable
    /\ tickets = EmptyTable
    /\ seq = InitSeq
    /\ now = 0
    /\ reqs = [c \in 1..NumClients |-> Idle]
    /\ response = NoResponse
    /\ probe = NoProbe
    /\ settings \in Settings

InitSeeded ==
    /\ users = InitUsers
    /\ airplanes = EmptyTable
    /\ crews = SeedCrews
    /\ airports = SeedAirports
    /\ routes = EmptyTable
    /\ flights = EmptyTable
    /\ orders = EmptyTable
    /\ tickets = EmptyTable
    /\ seq = [InitSeq EXCEPT !["airports"] = 3, !["crews"] = 2]
    /\ now = 0
    /\ reqs = [c \in 1..NumClients |-> Idle]
    /\ response = NoResponse
    /\ probe = NoProbe
    /\ settings \in Settings

----------------------------------------------------------------------------
(* Ticket.validate_ticket called directly, as the tests of the model do    *)

InitValidate ==
    /\ users = InitUsers
    /\ airplanes = EmptyTable
    /\ crews = EmptyTable
    /\ airports = EmptyTable
    /\ routes = EmptyTable
    /\ flights = EmptyTable
    /\ orders = EmptyTable
    /\ tickets = EmptyTable
    /\ seq = InitSeq
    /\ now = 0
    /\ reqs = [c \in 1..NumClients |-> Idle]
    /\ response = NoResponse
    /\ probe \in [row : -1..MaxProbe, seat : -1..MaxProbe,
                  rows : 0..MaxProbeSize, seats_in_row : 0..MaxProbeSize,
                  called : {FALSE}, result : {NoError}]
    /\ settings \in Settings

CallValidateTicket ==
    /\ ~probe.called
    /\ probe' = [probe EXCEPT
                    !.called = TRUE,
                    !.result = validate_ticket(probe.row, probe.seat,
                                   [rows |-> probe.rows,
                                    seats_in_row |-> probe.seats_in_row])]
    /\ UNCHANGED <<users, airplanes, crews, airports, routes, flights, orders,
                   tickets, seq, now, reqs, response, settings>>

NextValidate == CallValidateTicket

SpecValidate == InitValidate /\ [][NextValidate]_vars

\* C3: validate_ticket raises exactly when row is outside [1, rows] or seat
\* is outside [1, seats_in_row]; the error has the single key "row" or
\* "seat" with the message "<field> number must be in available range:
\* (1, <rows|seats_in_row>): (1, <limit>)"; row is checked before seat, so
\* when both are out of range only "row" is reported; in-range values raise
\* nothing. On a 5 x 4 airplane, row 0 gives "row number must be in
\* available range: (1, rows): (1, 5)".
C3_ValidateTicketRaises ==
    probe.called =>
        LET row_ok == 1 <= probe.row /\ probe.row <= probe.rows
            seat_ok == 1 <= probe.seat /\ probe.seat <= probe.seats_in_row
        IN /\ (probe.result = NoError) <=> (row_ok /\ seat_ok)
           /\ ~row_ok =>
                 /\ probe.result.field = "row"
                 /\ probe.result.message =
                      "row number must be in available range: (1, rows): (1, "
                          \o ToString(probe.rows) \o ")"
           /\ (row_ok /\ ~seat_ok) =>
                 /\ probe.result.field = "seat"
                 /\ probe.result.message =
                      "seat number must be in available range: (1, seats_in_row): (1, "
                          \o ToString(probe.seats_in_row) \o ")"
           /\ (probe.row = 0 /\ probe.rows = 5) =>
                 probe.result.message =
                     "row number must be in available range: (1, rows): (1, 5)"

\* row and seat both out of range on a 5 x 4 airplane: "row" is reported
C3_Witness ==
    /\ probe.called
    /\ probe.row = 0 /\ probe.seat = 0
    /\ probe.rows = 5 /\ probe.seats_in_row = 4
    /\ probe.result.field = "row"

----------------------------------------------------------------------------
(* Booking: airplanes, flights and orders over the seeded reference data,  *)
(* with order creations of several clients interleaved                     *)

Customers == {"alice", "bob"}

BookingCallers == {"alice", "admin"}

\* the customer logged in at each client
ClientUser == [c \in 1..NumClients |-> IF c = 1 THEN "alice" ELSE "bob"]

AirplaneData == [rows : 1..MaxRows, seats_in_row : 1..MaxSeats]

\* a flight body: the route and the times are fixed here
BookingFlightData ==
    {[route |-> [source |-> 1, destination |-> 2], airplane |-> a, crew |-> {1},
      departure_time |-> 1, arrival_time |-> 2] : a \in 1..MaxAirplanes}

TicketData == [flight : 1..MaxFlights, row : 1..MaxRows, seat : 1..MaxSeats]

TicketLists ==
    UNION {[1..n -> TicketData] : n \in 0..MaxTicketsPerOrder}

OrderData == {[tickets |-> list] : list \in TicketLists}

\* the bodies of the order updates of the booking runs
BookingUpdateData == {data \in OrderData : Len(data.tickets) <= 1}

NextBooking ==
    \/ \E data \in AirplaneData :
          NextVal("airplanes") <= MaxAirplanes /\ AirplaneCreate("admin", data)
    \/ \E id \in 1..MaxAirplanes, data \in AirplaneData :
          AirplaneUpdate("admin", "PUT", id, data)
    \/ \E data \in BookingFlightData :
          NextVal("flights") <= MaxFlights /\ FlightCreate("admin", data)
    \/ \E id \in 1..MaxFlights, data \in BookingFlightData :
          FlightUpdate("admin", "PUT", id, data)
    \/ \E c \in 1..NumClients, data \in OrderData :
          OrderCreateBegin(c, ClientUser[c], data, MaxOrders, MaxTickets)
    \/ \E c \in 1..NumClients : OrderCreateClean(c)
    \/ \E c \in 1..NumClients : OrderCreateInsert(c)
    \/ \E c \in 1..NumClients : OrderCreateDeadlock(c)
    \/ \E id \in 1..MaxOrders, data \in BookingUpdateData :
          OrderUpdate("admin", "PUT", id, data)
    \/ \E u \in BookingCallers, id \in 1..MaxOrders : OrderDestroy(u, id)

SpecBooking == InitSeeded /\ [][NextBooking]_vars

\* C1: in every state reachable by order create/update/delete, flight
\* create/update and airplane create/update, every persisted ticket has
\* 1 <= row <= rows and 1 <= seat <= seats_in_row of the airplane currently
\* assigned to its flight.
C1_TicketsWithinAirplane ==
    \A t \in CommittedTickets :
        LET airplane == airplanes[flights[tickets[t].flight].airplane]
        IN /\ 1 <= tickets[t].row /\ tickets[t].row <= airplane.rows
           /\ 1 <= tickets[t].seat /\ tickets[t].seat <= airplane.seats_in_row

\* C2: at most one persisted ticket exists for any (flight, row, seat), in
\* every interleaving of concurrent order creations asking for the same seat.
C2_NoDoubleBooking ==
    \A t1, t2 \in DOMAIN tickets :
        (/\ tickets[t1].flight = tickets[t2].flight
         /\ tickets[t1].row = tickets[t2].row
         /\ tickets[t1].seat = tickets[t2].seat) => t1 = t2

\* a creation that passed its checks together with another one on the same
\* seat, and was refused by the index once the other had committed
C2_Witness ==
    /\ response.resource = "orders"
    /\ response.method = "POST"
    /\ response.error = "IntegrityError"
    /\ CommittedTickets # {}

----------------------------------------------------------------------------
(* Flights: routes and times, with the clock running                       *)

InitFleet ==
    /\ users = InitUsers
    /\ airplanes = <<[rows |-> 1, seats_in_row |-> 1]>>
    /\ crews = SeedCrews
    /\ airports = SeedAirports
    /\ routes = EmptyTable
    /\ flights = EmptyTable
    /\ orders = EmptyTable
    /\ tickets = EmptyTable
    /\ seq = [InitSeq EXCEPT !["airports"] = 3, !["crews"] = 2, !["airplanes"] = 2]
    /\ now = 0
    /\ reqs = [c \in 1..NumClients |-> Idle]
    /\ response = NoResponse
    /\ probe = NoProbe
    /\ settings \in Settings

Times == 0..MaxTime

RouteData == [source : DOMAIN SeedAirports, destination : DOMAIN SeedAirports]

FlightData ==
    [route : RouteData, airplane : {1}, crew : {{1}},
     departure_time : Times, arrival_time : Times]

\* bodies of a partial update
FlightPatchData ==
    [route : [source : DOMAIN SeedAirports] \cup [destination : DOMAIN SeedAirports],
     crew : {{1}}]
        \cup [departure_time : Times] \cup [arrival_time : Times]
        \cup [route : RouteData, crew : {{1}}, arrival_time : Times]

NextFlight ==
    \/ \E u \in {"admin", "alice"}, data \in FlightData :
          NextVal("flights") <= MaxRoutes /\ FlightCreate(u, data)
    \/ \E u \in {"admin", "alice"}, id \in 1..MaxRoutes, data \in FlightData :
          FlightUpdate(u, "PUT", id, data)
    \/ \E id \in 1..MaxRoutes, data \in FlightPatchData :
          FlightUpdate("admin", "PATCH", id, data)
    \/ Tick(MaxTime)

SpecFlight == InitFleet /\ [][NextFlight]_vars

\* C4: every flight persisted through the flight create or update
\* operations has arrival_time >= departure_time and departure_time >= the
\* time of the request; a request violating either is rejected and persists
\* no change.
C4_FlightTimesValidated ==
    [][\A f \in DOMAIN flights' :
          (f \notin DOMAIN flights \/ flights'[f] # flights[f]) =>
              /\ flights'[f].arrival_time >= flights'[f].departure_time
              /\ flights'[f].departure_time >= now]_vars

\* C5: every persisted route has source # destination, routes created with
\* a flight and routes changed by a flight update included.
C5_RouteEndpointsDiffer ==
    \A r \in DOMAIN routes : routes[r].source # routes[r].destination

----------------------------------------------------------------------------
(* Airports: codes and countries through create, update, partial update    *)

CodeInputs == UNION {[1..n -> Alphabet] : n \in 0..MaxCodeInput}

CountryInputs == {"Yemen", "Test Country", ""}

\* request bodies: both fields, either one, or none
AirportData ==
    [code : CodeInputs, country : CountryInputs]
        \cup [code : CodeInputs] \cup [country : CountryInputs] \cup {<< >>}

AirportCallers == {"admin", "alice"}

AirportWrites == {"PUT", "PATCH"}

NextAirport ==
    \/ \E u \in AirportCallers, data \in AirportData :
          NextVal("airports") <= MaxAirports /\ AirportCreate(u, data)
    \/ \E u \in AirportCallers, method \in AirportWrites,
          id \in 1..MaxAirports, data \in AirportData :
          AirportUpdate(u, method, id, data)
    \/ \E id \in 1..MaxAirports : AirportDestroy("admin", id)

SpecAirport == InitEmpty /\ [][NextAirport]_vars

\* the body of the request a response answers
Body == response.query

WroteAirport ==
    /\ response.resource = "airports"
    /\ response.method \in {"POST", "PUT", "PATCH"}

Capital(c) == IF c \in LowerLetters THEN "A" ELSE c

C7_AirportCountryKnown ==
    /\ [](\A a \in DOMAIN airports : airports[a].country \in ReferenceCountries)
    /\ [][(/\ WroteAirport'
           /\ \/ response'.method # "PATCH" /\ ~Has(Body', {"country"})
              \/ /\ Has(Body', {"country"})
                 /\ Body'.country \notin ReferenceCountries) =>
             /\ response'.status >= 400
             /\ airports' = airports]_vars

\* an update naming an unknown country has been refused by Airport.clean
\* while an airport is stored
C7_Witness ==
    /\ WroteAirport
    /\ response.status = 400
    /\ response.error = "Country not found"
    /\ Body.country = "Test Country"
    /\ DOMAIN airports # {}

----------------------------------------------------------------------------
(* Orders: one client books on a flight of a two-row airplane; customers,  *)
(* staff and anonymous callers read, update and delete orders              *)

InitBooked ==
    /\ users = InitUsers
    /\ airplanes = <<[rows |-> MaxRows, seats_in_row |-> MaxSeats]>>
    /\ crews = SeedCrews
    /\ airports = SeedAirports
    /\ routes = <<[source |-> 1, destination |-> 2]>>
    /\ flights = <<[route |-> 1, airplane |-> 1, crew |-> {1},
                    departure_time |-> 1, arrival_time |-> 2]>>
    /\ orders = EmptyTable
    /\ tickets = EmptyTable
    /\ seq = [InitSeq EXCEPT !["airports"] = 3, !["crews"] = 2,
                             !["airplanes"] = 2, !["routes"] = 2,
                             !["flights"] = 2]
    /\ now = 0
    /\ reqs = [c \in 1..NumClients |-> Idle]
    /\ response = NoResponse
    /\ probe = NoProbe
    /\ settings \in Settings

\* the query parameters of a GET on the orders: any of the three, or none
OrderParams ==
    LET user_ids == {"bob"}
        order_ids == 1..MaxOrders
        flight_ids == 1..(MaxFlights + 1)
    IN {<< >>} \cup [user_id : user_ids] \cup [order_id : order_ids]
          \cup [flight_id : flight_ids]
          \cup [user_id : user_ids, order_id : order_ids]
          \cup [user_id : user_ids, flight_id : flight_ids]
          \cup [order_id : order_ids, flight_id : flight_ids]
          \cup [user_id : user_ids, order_id : order_ids, flight_id : flight_ids]

Readers == {"alice"}

OrderWriters == {"alice", "admin"}

NextOrders ==
    \/ \E u \in Customers, data \in OrderData :
          OrderCreateBegin(1, u, data, MaxOrders, MaxTicketsPerOrder)
    \/ OrderCreateClean(1)
    \/ OrderCreateInsert(1)
    \/ \E u \in Readers, params \in OrderParams : OrderList(u, params)
    \/ \E u \in Readers, id \in 1..MaxOrders, params \in OrderParams :
          OrderRetrieve(u, id, params)
    \/ \E u \in OrderWriters, method \in {"PUT", "PATCH"}, id \in 1..MaxOrders,
          data \in BookingUpdateData : OrderUpdate(u, method, id, data)
    \/ \E u \in OrderWriters \cup {Anonymous}, id \in 1..MaxOrders :
          OrderDestroy(u, id)

SpecOrders == InitBooked /\ [][NextOrders]_vars

\* the committed orders of a user
Own(u) == {o \in DOMAIN orders : orders[o].tx = 0 /\ orders[o].user = u}

\* the orders of a user that the order_id and flight_id parameters select
Matching(u, params) ==
    {o \in Own(u) :
        /\ "order_id" \in DOMAIN params => o = params.order_id
        /\ "flight_id" \in DOMAIN params =>
              \E t \in DOMAIN tickets :
                 /\ tickets[t].tx = 0
                 /\ tickets[t].order = o
                 /\ tickets[t].flight = params.flight_id}

\* a customer has just been answered on a GET of the orders
CustomerRead ==
    /\ response'.resource = "orders"
    /\ response'.method = "GET"
    /\ response'.caller \in Customers

\* C8 as stated: for a non-staff user the orders visible through list and
\* retrieve are exactly the orders the user owns, for every combination of
\* user_id, order_id and flight_id.
C8_VisibleExactlyOwn ==
    [][CustomerRead =>
          LET u == response'.caller
              params == response'.query
          IN /\ OrderList(u, params) => response'.data = Own(u)
             /\ \A id \in 1..MaxOrders :
                   OrderRetrieve(u, id, params) =>
                      (id \in Own(u) <=> response'.data = {id})]_vars

\* C8: for a non-staff user, list returns exactly the user's own orders that
\* match order_id and flight_id when given (user_id is ignored); retrieve
\* returns an order only when it is one of those, answers 404 when it is
\* not, and 500 when flight_id matches several of its tickets; no parameter
\* value makes an order of another user visible.
C8_VisibleOwnMatching ==
    [][CustomerRead =>
          LET u == response'.caller
              params == response'.query
              visible == Matching(u, params)
          IN /\ \A o \in response'.data : orders[o].user = u
             /\ OrderList(u, params) =>
                   response'.status = 200 /\ response'.data = visible
             /\ \A id \in 1..MaxOrders :
                   OrderRetrieve(u, id, params) =>
                      IF id \notin visible
                      THEN response'.status = 404 /\ response'.data = {}
                      ELSE \/ response'.status = 200 /\ response'.data = {id}
                           \/ /\ response'.status = 500
                              /\ response'.data = {}
                              /\ "flight_id" \in DOMAIN params
                              /\ Cardinality({t \in DOMAIN tickets :
                                     /\ tickets[t].order = id
                                     /\ tickets[t].flight = params.flight_id}) > 1]_vars

\* alice asked for the orders of bob with user_id, both own a committed
\* order, and the answer is her own order alone
C8_Witness ==
    /\ response.resource = "orders"
    /\ response.method = "GET"
    /\ response.caller = "alice"
    /\ response.status = 200
    /\ "user_id" \in DOMAIN response.query
    /\ response.query.user_id = "bob"
    /\ Own("bob") # {}
    /\ Own("alice") # {}
    /\ response.data = Own("alice")

\* a customer has just been answered on a request on the orders
CustomerAnswered ==
    /\ response'.resource = "orders"
    /\ response'.caller \in Customers

\* C9 as stated: a non-staff user can create, list, retrieve, update,
\* partially update and delete their own orders, and none of these succeeds
\* on an order of another user.
C9_CustomerFullCrud ==
    [][CustomerAnswered =>
          LET u == response'.caller
          IN /\ response'.method \in {"POST", "GET"} =>
                   response'.status \notin {401, 403}
             /\ \A id \in 1..MaxOrders :
                   /\ \A data \in BookingUpdateData :
                         (/\ response'.method \in {"PUT", "PATCH"}
                          /\ id \in Own(u)
                          /\ OrderUpdate(u, response'.method, id, data)) =>
                            response'.status \notin {401, 403}
                   /\ (/\ response'.method = "DELETE"
                       /\ id \in Own(u)
                       /\ OrderDestroy(u, id)) =>
                         response'.status = 204 /\ id \notin DOMAIN orders'
                   /\ (/\ response'.method = "DELETE"
                       /\ id \notin Own(u)
                       /\ OrderDestroy(u, id)) =>
                         response'.status >= 400 /\ orders' = orders
                   /\ (/\ response'.method = "GET"
                       /\ response'.query = << >>
                       /\ OrderRetrieve(u, id, << >>)) =>
                         (id \in Own(u) <=> response'.status = 200)]_vars

\* C9: a non-staff user can create, list and retrieve their own orders; an
\* update, partial update or delete by a non-staff user is refused with 403
\* and changes nothing, on their own orders too; no operation succeeds on an
\* order of another user.
C9_CustomerOwnOrders ==
    [][CustomerAnswered =>
          LET u == response'.caller
          IN /\ response'.method \in {"POST", "GET"} =>
                   response'.status \notin {401, 403}
             /\ (/\ response'.method = "POST"
                 /\ response'.status = 201
                 /\ OrderCreateInsert(1)) =>
                   \A o \in response'.data :
                      /\ o \in DOMAIN orders'
                      /\ orders'[o] = [user |-> u, tx |-> 0]
                      /\ \E t \in DOMAIN tickets' :
                            tickets'[t].order = o /\ tickets'[t].tx = 0
             /\ (/\ response'.method = "GET"
                 /\ response'.query = << >>
                 /\ OrderList(u, << >>)) =>
                   response'.status = 200 /\ response'.data = Own(u)
             /\ \A id \in 1..MaxOrders :
                   /\ (/\ response'.method = "GET"
                       /\ response'.query = << >>
                       /\ OrderRetrieve(u, id, << >>)) =>
                         IF id \in Own(u)
                         THEN response'.status = 200 /\ response'.data = {id}
                         ELSE response'.status = 404 /\ response'.data = {}
                   /\ (response'.method = "DELETE" /\ OrderDestroy(u, id)) =>
                         /\ response'.status = 403
                         /\ orders' = orders /\ tickets' = tickets
                   /\ \A data \in BookingUpdateData :
                         (/\ response'.method \in {"PUT", "PATCH"}
                          /\ OrderUpdate(u, response'.method, id, data)) =>
                            /\ response'.status = 403
                            /\ orders' = orders /\ tickets' = tickets]_vars

\* alice owns a committed order and her DELETE has been refused with 403
C9_Witness ==
    /\ response.resource = "orders"
    /\ response.method = "DELETE"
    /\ response.caller = "alice"
    /\ response.status = 403
    /\ Own("alice") # {}
    /\ Own("bob") # {}

----------------------------------------------------------------------------
(* Access: every operation on airplanes, crews, airports and flights, by   *)
(* an anonymous caller, a customer and a member of staff                   *)

InitAccess ==
    /\ users = InitUsers
    /\ airplanes = EmptyTable
    /\ crews = EmptyTable
    /\ airports = SeedAirports
    /\ routes = EmptyTable
    /\ flights = EmptyTable
    /\ orders = EmptyTable
    /\ tickets = EmptyTable
    /\ seq = [InitSeq EXCEPT !["airports"] = 3]
    /\ now = 0
    /\ reqs = [c \in 1..NumClients |-> Idle]
    /\ response = NoResponse
    /\ probe = NoProbe
    /\ settings \in Settings

AccessCallers == {Anonymous, "alice", "admin"}

AccessWrites == {"PUT", "PATCH"}

AccessAirplaneData == {[rows |-> MaxRows, seats_in_row |-> MaxSeats]}

AccessCrewData == {[title |-> "Captain"]}

AccessAirportData == {[code |-> <<"a", "A">>, country |-> "Yemen"]}

AccessFlightData ==
    {[route |-> [source |-> 1, destination |-> 2], airplane |-> 1, crew |-> {1},
      departure_time |-> 1, arrival_time |-> 2]}

NextAccess ==
    \/ \E u \in AccessCallers : AirplaneList(u)
    \/ \E u \in AccessCallers, id \in 1..MaxAirplanes : AirplaneRetrieve(u, id)
    \/ \E u \in AccessCallers, data \in AccessAirplaneData :
          NextVal("airplanes") <= MaxAirplanes /\ AirplaneCreate(u, data)
    \/ \E u \in AccessCallers, method \in AccessWrites, id \in 1..MaxAirplanes,
          data \in AccessAirplaneData : AirplaneUpdate(u, method, id, data)
    \/ \E u \in AccessCallers, id \in 1..MaxAirplanes : AirplaneDestroy(u, id)
    \/ \E u \in AccessCallers : CrewList(u)
    \/ \E u \in AccessCallers, id \in 1..MaxCrews : CrewRetrieve(u, id)
    \/ \E u \in AccessCallers, data \in AccessCrewData :
          NextVal("crews") <= MaxCrews /\ CrewCreate(u, data)
    \/ \E u \in AccessCallers, method \in AccessWrites, id \in 1..MaxCrews,
          data \in AccessCrewData : CrewUpdate(u, method, id, data)
    \/ \E u \in AccessCallers, id \in 1..MaxCrews : CrewDestroy(u, id)
    \/ \E u \in AccessCallers : AirportList(u)
    \/ \E u \in AccessCallers, id \in DOMAIN SeedAirports, weather_ok \in BOOLEAN :
          AirportRetrieve(u, id, weather_ok)
    \/ \E u \in AccessCallers, data \in AccessAirportData :
          /\ NextVal("airports") <= Len(SeedAirports) + MaxAirports
          /\ AirportCreate(u, data)
    \/ \E u \in AccessCallers, method \in AccessWrites,
          id \in 1..(Len(SeedAirports) + MaxAirports),
          data \in AccessAirportData : AirportUpdate(u, method, id, data)
    \/ \E u \in AccessCallers, id \in 1..(Len(SeedAirports) + MaxAirports) :
          AirportDestroy(u, id)
    \/ \E u \in AccessCallers : FlightList(u)
    \/ \E u \in AccessCallers, id \in 1..MaxFlights : FlightRetrieve(u, id)
    \/ \E u \in AccessCallers, data \in AccessFlightData :
          NextVal("flights") <= MaxFlights /\ FlightCreate(u, data)
    \/ \E u \in AccessCallers, method \in AccessWrites, id \in 1..MaxFlights,
          data \in AccessFlightData : FlightUpdate(u, method, id, data)
    \/ \E u \in AccessCallers, id \in 1..MaxFlights : FlightDestroy(u, id)

SpecAccess == InitAccess /\ [][NextAccess]_vars

ReferenceResources == {"airplanes", "crews", "airports", "flights"}

\* C10: on airplanes, crews, airports and flights, a GET without
\* credentials is refused with 401 and a GET by an authenticated caller is
\* not refused; a POST, PUT, PATCH or DELETE by an authenticated non-staff
\* caller is refused with 403 and leaves the stored data unchanged; the same
\* write by a member of staff is not refused.
C10_ReferenceDataAccess ==
    /\ [](response.resource \in ReferenceResources =>
            LET staff == response.caller = "admin"
                known == response.caller \in {"alice", "bob", "admin"}
                write == response.method \in {"POST", "PUT", "PATCH", "DELETE"}
            IN /\ (response.method = "GET" /\ ~known) => response.status = 401
               /\ (response.method = "GET" /\ known) =>
                     response.status \notin {401, 403}
               /\ (write /\ known /\ ~staff) => response.status = 403
               /\ (write /\ staff) => response.status \notin {401, 403})
    /\ [][(/\ response'.resource \in ReferenceResources
           /\ response'.method \in {"POST", "PUT", "PATCH", "DELETE"}
           /\ response'.caller \in {"alice", "bob"}) =>
             UNCHANGED <<airplanes, crews, airports, routes, flights, orders,
                         tickets, seq>>]_vars

\* a customer's DELETE of a stored flight has been refused with 403
C10_Witness ==
    /\ response.resource = "flights"
    /\ response.method = "DELETE"
    /\ response.caller = "alice"
    /\ response.status = 403
    /\ DOMAIN flights # {}
    /\ DOMAIN airplanes # {}
    /\ DOMAIN crews # {}

----------------------------------------------------------------------------
(* Seats: bookings and order deletions on two flights of one airplane,     *)
(* with the flights read in between                                        *)

SeatFlights == 1..(MaxFlights + 1)

InitSeats ==
    /\ users = InitUsers
    /\ airplanes = <<[rows |-> MaxRows, seats_in_row |-> MaxSeats]>>
    /\ crews = SeedCrews
    /\ airports = SeedAirports
    /\ routes = [f \in SeatFlights |-> [source |-> 1, destination |-> 2]]
    /\ flights = [f \in SeatFlights |->
                     [route |-> f, airplane |-> 1, crew |-> {1},
                      departure_time |-> 1, arrival_time |-> 2]]
    /\ orders = EmptyTable
    /\ tickets = EmptyTable
    /\ seq = [InitSeq EXCEPT !["airports"] = 3, !["crews"] = 2,
                             !["airplanes"] = 2,
                             !["routes"] = MaxFlights + 2,
                             !["flights"] = MaxFlights + 2]
    /\ now = 0
    /\ reqs = [c \in 1..NumClients |-> Idle]
    /\ response = NoResponse
    /\ probe = NoProbe
    /\ settings \in Settings

SeatTicketData == [flight : SeatFlights, row : 1..MaxRows, seat : 1..MaxSeats]

SeatOrderData ==
    {[tickets |-> list] :
        list \in UNION {[1..n -> SeatTicketData] : n \in 1..MaxTicketsPerOrder}}

NextSeats ==
    \/ \E data \in SeatOrderData :
          OrderCreateBegin(1, "alice", data, MaxOrders, MaxTickets)
    \/ OrderCreateClean(1)
    \/ OrderCreateInsert(1)
    \/ \E u \in {"admin", "alice"}, id \in 1..MaxOrders : OrderDestroy(u, id)
    \/ \E u \in {"alice", Anonymous} : FlightList(u)
    \/ \E id \in SeatFlights : FlightRetrieve("alice", id)

SpecSeats == InitSeats /\ [][NextSeats]_vars

\* the committed tickets of a flight
Booked(f) == {t \in DOMAIN tickets : tickets[t].tx = 0 /\ tickets[t].flight = f}

\* C11: the available_seats reported for a flight is rows * seats_in_row of
\* its airplane minus the number of tickets persisted for that flight; each
\* ticket booked on the flight lowers it by one, each ticket removed with
\* its order raises it by one, and tickets of other flights leave it alone.
C11_AvailableSeats ==
    /\ [][(/\ response'.resource = "flights"
           /\ response'.method = "GET"
           /\ response'.status = 200
           /\ reqs' = reqs) =>
             \A pair \in response'.data :
                LET airplane == airplanes[flights[pair[1]].airplane]
                IN pair[2] = airplane.rows * airplane.seats_in_row
                                - Cardinality(Booked(pair[1]))]_vars
    /\ [][\A f \in DOMAIN flights :
             (f \in DOMAIN flights' /\ airplanes' = airplanes) =>
                available_seats(f)' - available_seats(f) =
                   Cardinality(Booked(f)) - Cardinality(Booked(f)')]_vars

\* both flights are listed after a booking of two seats on flight 1: none
\* is left there, and flight 2 has all its seats
C11_Witness ==
    /\ response.resource = "flights"
    /\ response.method = "GET"
    /\ response.data = {<<1, MaxRows * MaxSeats - 2>>, <<2, MaxRows * MaxSeats>>}
    /\ Cardinality(Booked(1)) = 2
    /\ Booked(2) = {}

----------------------------------------------------------------------------
(* Airplanes: the seats of an airplane and the total_seats filter          *)

MaxQueryLen == 2

QueryChars == {"0", "1", "2", "4", "-", "x"}

QueryTexts == UNION {[1..n -> QueryChars] : n \in 0..MaxQueryLen}

AirplaneParams == {<< >>} \cup [total_seats : QueryTexts]

SeatCounts == [rows : 1..MaxRows, seats_in_row : 1..(MaxSeats + 1)]

NextAirplanes ==
    \/ \E data \in SeatCounts :
          NextVal("airplanes") <= MaxAirplanes + 1 /\ AirplaneCreate("admin", data)
    \/ \E u \in {"admin", "alice"}, id \in 1..(MaxAirplanes + 1),
          data \in [rows : 1..MaxRows] : AirplaneUpdate(u, "PATCH", id, data)
    \/ \E id \in 1..(MaxAirplanes + 1) : AirplaneDestroy("admin", id)
    \/ \E u \in {"alice", Anonymous}, params \in AirplaneParams :
          AirplaneListWith(u, params)
    \/ \E id \in 1..(MaxAirplanes + 1) : AirplaneRetrieve("alice", id)

SpecAirplanes == InitEmpty /\ [][NextAirplanes]_vars

\* the seats of an airplane, counted one by one
SeatsOf(a) == Cardinality((1..airplanes[a].rows) \X (1..airplanes[a].seats_in_row))

\* str() of a small integer
Decimal(n) ==
    IF n < 0 THEN <<"-", DigitChars[1 - n]>>
    ELSE IF n < 10 THEN <<DigitChars[n + 1]>>
    ELSE <<DigitChars[(n \div 10) + 1], DigitChars[(n % 10) + 1]>>

\* C12: the detail of an airplane reports total_seats = rows * seats_in_row,
\* and a list request with total_seats=N is answered with exactly the
\* airplanes whose rows * seats_in_row <= N.
C12_TotalSeatsFilter ==
    [][response'.resource = "airplanes" /\ response'.method = "GET"
       /\ response'.status = 200 =>
          /\ \A id \in 1..(MaxAirplanes + 1) :
                response'.query = [pk |-> id] =>
                   response'.data = {<<id, SeatsOf(id)>>}
          /\ \A N \in (0 - 9)..44 :
                response'.query = [total_seats |-> Decimal(N)] =>
                   response'.data = {a \in DOMAIN airplanes : SeatsOf(a) <= N}]_vars

\* two airplanes of 2 and 4 seats; total_seats=2 lists the first only
C12_Witness ==
    /\ response.resource = "airplanes" /\ response.method = "GET"
    /\ response.status = 200
    /\ response.query = [total_seats |-> <<"2">>]
    /\ DOMAIN airplanes = {1, 2}
    /\ total_seats(airplanes[1]) = 2 /\ total_seats(airplanes[2]) = 4
    /\ response.data = {1}

----------------------------------------------------------------------------
(* Cascades: bookings on two flights while orders, flights, airplanes,     *)
(* routes, airports and users are deleted                                  *)

NextCascade ==
    \/ \E data \in SeatOrderData :
          OrderCreateBegin(1, "alice", data, MaxOrders, MaxTickets)
    \/ OrderCreateClean(1)
    \/ OrderCreateInsert(1)
    \/ \E u \in {"admin", "alice"}, id \in 1..MaxOrders : OrderDestroy(u, id)
    \/ \E id \in SeatFlights : FlightDestroy("admin", id)
    \/ \E id \in 1..MaxAirplanes : AirplaneDestroy("admin", id)
    \/ AirportDestroy("admin", 1)
    \/ \E id \in SeatFlights : Route_delete(id)
    \/ User_delete("alice")

SpecCascade == InitSeats /\ [][NextCascade]_vars

\* C13: every ticket refers to an existing order and an existing flight
\* (a committed ticket to a committed order), and a DELETE of an order that
\* answers 204 removes that order and exactly the tickets of that order,
\* leaving every other order and ticket as it was.
C13_CascadeKeepsReferences ==
    /\ [](\A t \in DOMAIN tickets :
            /\ tickets[t].flight \in DOMAIN flights
            /\ tickets[t].order \in DOMAIN orders
            /\ tickets[t].tx = Committed =>
                  orders[tickets[t].order].tx = Committed)
    /\ [][response'.resource = "orders" /\ response'.method = "DELETE"
          /\ response'.status = 204 =>
             \A id \in 1..MaxOrders :
                OrderDestroy(response'.caller, id) =>
                   /\ DOMAIN orders' = DOMAIN orders \ {id}
                   /\ DOMAIN tickets' =
                         {t \in DOMAIN tickets : tickets[t].order # id}
                   /\ \A t \in DOMAIN tickets' : tickets'[t] = tickets[t]
                   /\ \A o \in DOMAIN orders' : orders'[o] = orders[o]]_vars

\* the first order and its ticket are gone by a DELETE while the second
\* order keeps its tickets, with every flight and user still there
C13_Witness ==
    /\ response.resource = "orders" /\ response.method = "DELETE"
    /\ response.status = 204
    /\ ~settings.ATOMIC_REQUESTS
    /\ DOMAIN flights = SeatFlights /\ DOMAIN users = DOMAIN InitUsers
    /\ DOMAIN orders = {2}
    /\ 1 \notin DOMAIN tickets
    /\ \E t \in DOMAIN tickets : tickets[t].order = 2 /\ tickets[t].tx = Committed

\* the orders no request in flight is still writing the tickets of
SettledOrders == {o \in CommittedOrders : \A c \in DOMAIN reqs : reqs[c].order # o}

\* C14: every persisted order groups at least one ticket, whatever
\* creations, updates and deletions of flights, airplanes and routes came
\* before.
C14_OrdersHaveTickets ==
    \A o \in SettledOrders :
       \E t \in CommittedTickets : tickets[t].order = o

----------------------------------------------------------------------------
(* Order creation under the per-request transaction: two clients booking   *)
(* the seats of one flight, with seats out of range, seats taken and seats *)
(* listed twice                                                            *)

\* a deployment committing each statement on its own
AutocommitRequests == FALSE

\* every request runs in one database transaction scoped to that request
AtomicRequests == TRUE

InitAtomic == InitBooked /\ settings.ATOMIC_REQUESTS = AtomicRequests

AtomicTicketData == [flight : 1..MaxFlights, row : 1..(MaxRows + 1), seat : 1..MaxSeats]

AtomicOrderData ==
    {[tickets |-> list] :
        list \in UNION {[1..n -> AtomicTicketData] : n \in 0..MaxTicketsPerOrder}}

NextAtomic ==
    \/ \E c \in 1..NumClients, data \in AtomicOrderData :
          OrderCreateBegin(c, ClientUser[c], data, MaxOrders + 1, MaxTickets)
    \/ \E c \in 1..NumClients : OrderCreateClean(c)
    \/ \E c \in 1..NumClients : OrderCreateInsert(c)
    \/ \E c \in 1..NumClients : OrderCreateDeadlock(c)

SpecAtomic == InitAtomic /\ [][NextAtomic]_vars

\* the rows of the tables as the other requests read them
Persisted(order_table, ticket_table) ==
    <<[o \in {x \in DOMAIN order_table : order_table[x].tx = Committed} |->
          order_table[o]],
      [t \in {x \in DOMAIN ticket_table : ticket_table[x].tx = Committed} |->
          ticket_table[t]]>>

\* C15: an order creation that is answered with anything but 201 leaves the
\* persisted orders and tickets as they were, nothing of the request
\* remains in the tables, and no step of a creation still running persists
\* a row.
C15_OrderCreationAllOrNothing ==
    [][\A c \in 1..NumClients :
          /\ reqs'[c] # reqs[c] /\ reqs'[c].pc # "idle" =>
                Persisted(orders', tickets') = Persisted(orders, tickets)
          /\ reqs[c].pc # "idle" /\ reqs'[c].pc = "idle"
             /\ response'.status # 201 =>
                /\ Persisted(orders', tickets') = Persisted(orders, tickets)
                /\ reqs[c].order \notin DOMAIN orders'
                /\ \A t \in DOMAIN tickets' : tickets'[t].order # reqs[c].order
          /\ reqs' = reqs => orders' = orders /\ tickets' = tickets]_vars

\* a request listing one seat twice has failed at its second ticket, after
\* its order and its first ticket were written: nothing is stored
C15_Witness ==
    /\ response.resource = "orders" /\ response.method = "POST"
    /\ response.status = 500 /\ response.error = "unique_together"
    /\ seq["orders"] = 2 /\ seq["tickets"] = 2
    /\ orders = EmptyTable /\ tickets = EmptyTable
    /\ \A c \in 1..NumClients : reqs[c].pc = "idle"

----------------------------------------------------------------------------
(* Users: registration, the list of the users and the caller's own account *)

Passwords ==
    {Pw(PasswordMinLength - 1, "n"), Pw(PasswordMinLength, "n"),
     Pw(PasswordMaxLength + 1, "n")}

\* an address in use and a new one
UserEmails == {"alice", "carol"}

UserCreateData ==
    {<< >>} \cup [email : UserEmails, password : Passwords]
        \cup [email : UserEmails, password : Passwords, is_staff : {TRUE}]

UserUpdateData ==
    [first_name : {"Ann"}] \cup [first_name : {"Ann"}, is_staff : {TRUE}]
        \cup [password : Passwords]
        \cup [email : {"admin"}, password : Passwords]

UserCallers == {Anonymous, "alice", "admin"}

NextUsers ==
    \/ \E u \in UserCallers, data \in UserCreateData, password_ok \in BOOLEAN :
          UserCreate(u, data, password_ok)
    \/ \E u \in UserCallers \cup {"carol"} : UserList(u)
    \/ \E u \in UserCallers \cup {"carol"} : ManageUserRetrieve(u)
    \/ \E u \in UserCallers, method \in {"PUT", "PATCH"},
          data \in UserUpdateData, password_ok \in BOOLEAN :
          ManageUserUpdate(u, method, data, password_ok)

SpecUsers == InitEmpty /\ [][NextUsers]_vars

C17_ManageUserOwnRecord ==
    [][response'.resource = "me" =>
          LET u == response'.caller
          IN IF u \notin DOMAIN users
             THEN response'.status = 401 /\ users' = users
             ELSE /\ response'.status \in {200, 400}
                  /\ response'.status = 200 => response'.data = {u}
                  /\ response'.status = 400 => users' = users
                  /\ DOMAIN users' = DOMAIN users
                  /\ \A name \in DOMAIN users \ {u} :
                        users'[name] = users[name]]_vars

\* the member of staff has renamed themself; alice is as she was
C17_Witness ==
    /\ response.resource = "me" /\ response.method = "PATCH"
    /\ response.caller = "admin" /\ response.status = 200
    /\ users["admin"].first_name = "Ann"
    /\ users["alice"] = InitUsers["alice"]

\* C18: no request changes the is_staff of a user, a user created is not
\* staff, and an update of the caller's account whose body has no password
\* leaves the stored password as it was.
C18_StaffFlagReadOnly ==
    [][/\ \A name \in DOMAIN users' :
             IF name \in DOMAIN users
             THEN users'[name].is_staff = users[name].is_staff
             ELSE ~users'[name].is_staff
       /\ response'.resource = "me" /\ response'.method \in {"PUT", "PATCH"}
          /\ response'.status = 200
          /\ "password" \notin DOMAIN response'.query =>
             users'[response'.caller].password = users[response'.caller].password
      ]_vars

\* carol has registered; alice has sent is_staff with a new first name and
\* no password: the name is stored, she is not staff, her password is kept
C18_Witness ==
    /\ response.resource = "me" /\ response.method = "PATCH"
    /\ response.caller = "alice" /\ response.status = 200
    /\ response.query = [first_name |-> "Ann", is_staff |-> TRUE]
    /\ users["alice"] = [is_staff |-> FALSE, first_name |-> "Ann",
                         password |-> make_password(TestPassword)]
    /\ "carol" \in DOMAIN users /\ ~users["carol"].is_staff

----------------------------------------------------------------------------
(* Serializer classes: every viewset asked for every action by every kind  *)
(* of caller, while customers book and orders are read                     *)

\* the actions of a ModelViewSet, and the metadata action of OPTIONS
ViewActions == {"list", "retrieve", "create", "update", "partial_update",
                "destroy", "metadata"}

ViewSets == {"airplanes", "crews", "airports", "flights", "orders"}

SerializerOrderData ==
    {[tickets |-> <<[flight |-> 1, row |-> row, seat |-> 1]>>] : row \in 1..MaxRows}

SerializerCallers == {"alice", "admin", Anonymous}

\* a view of each viewset with its action set, before the call
InitSerializers ==
    /\ users = InitUsers
    /\ airplanes = EmptyTable
    /\ crews = EmptyTable
    /\ airports = EmptyTable
    /\ routes = EmptyTable
    /\ flights = EmptyTable
    /\ orders = EmptyTable
    /\ tickets = EmptyTable
    /\ seq = InitSeq
    /\ now = 0
    /\ reqs = [c \in 1..NumClients |-> Idle]
    /\ response = NoResponse
    /\ probe \in [viewset : ViewSets, action : ViewActions,
                   user : SerializerCallers, called : {FALSE}, result : {""}]
    /\ settings \in Settings

NextSerializers ==
    /\ ~probe.called
    /\ CallGetSerializerClass(probe.viewset, probe.action, probe.user)

SpecSerializers == InitSerializers /\ [][NextSerializers]_vars

NextStaffOrders ==
    \/ \E action \in ViewActions, user \in SerializerCallers :
          CallGetSerializerClass("orders", action, user)
    \/ \E u \in Customers, data \in SerializerOrderData :
          OrderCreateBegin(1, u, data, MaxOrders, MaxTicketsPerOrder)
    \/ OrderCreateClean(1)
    \/ OrderCreateInsert(1)
    \/ \E u \in {"admin", Anonymous} : OrderList(u, << >>)
    \/ \E id \in 1..MaxOrders : OrderRetrieve("admin", id, << >>)

SpecStaffOrders == InitBooked /\ [][NextStaffOrders]_vars

\* the serializer each action gets, as the tests of the views list them
ExpectedSerializer ==
    [airplanes |-> [list |-> "AirplaneListSerializer",
                    retrieve |-> "AirplaneDetailSerializer",
                    write |-> "AirplaneSerializer"],
     crews     |-> [list |-> "CrewListSerializer",
                    retrieve |-> "CrewDetailSerializer",
                    write |-> "CrewSerializer"],
     airports  |-> [list |-> "AirportListSerializer",
                    retrieve |-> "AirportDetailSerializer",
                    write |-> "AirportSerializer"],
     flights   |-> [list |-> "FlightListSerializer",
                    retrieve |-> "FlightDetailSerializer",
                    write |-> "FlightSerializer"]]

\* C19: on the airplane, crew, airport and flight viewsets, list gets the
\* List serializer, retrieve the Detail serializer, and every other action
\* the default write serializer.
C19_SerializerByAction ==
    probe.called /\ probe.viewset \in DOMAIN ExpectedSerializer =>
       probe.result =
          ExpectedSerializer[probe.viewset]
             [IF probe.action \in {"list", "retrieve"} THEN probe.action
              ELSE "write"]

C19_Witness ==
    /\ probe.called /\ probe.viewset = "airplanes" /\ probe.action = "destroy"
    /\ probe.result = "AirplaneSerializer"

StaffSerializers == {"OrderListForStaffSerializer", "OrderDetailForStaffSerializer"}

\* C20: on the orders, a serializer for the staff is chosen exactly when
\* the caller is staff and the action is list or retrieve; any other caller
\* gets a serializer without the user of the order; and the list a member
\* of staff asks for without parameters holds the orders of every user.
C20_StaffSerializers ==
    /\ [](probe.called /\ probe.viewset = "orders" =>
            LET staff == probe.user \in DOMAIN users /\ users[probe.user].is_staff
            IN /\ probe.result \in StaffSerializers <=>
                     staff /\ probe.action \in {"list", "retrieve"}
               /\ staff /\ probe.action = "list" =>
                     probe.result = "OrderListForStaffSerializer"
               /\ staff /\ probe.action = "retrieve" =>
                     probe.result = "OrderDetailForStaffSerializer"
               /\ ~staff =>
                     /\ probe.result \in DOMAIN OrderSerializerFields
                     /\ "user" \notin OrderSerializerFields[probe.result])
    /\ [][response'.resource = "orders" /\ response'.method = "GET"
          /\ response'.caller = "admin" =>
             /\ OrderList("admin", << >>) =>
                   response'.data = {o \in DOMAIN orders : orders[o].tx = Committed}
             /\ \A id \in 1..MaxOrders :
                   OrderRetrieve("admin", id, << >>) /\ id \in DOMAIN orders
                   /\ orders[id].tx = Committed =>
                      response'.status = 200 /\ response'.data = {id}]_vars

\* alice and bob have an order each; the member of staff lists both, and
\* the list action of a member of staff has the serializer for the staff
C20_Witness ==
    /\ probe.called /\ probe.viewset = "orders" /\ probe.action = "list"
    /\ probe.user = "admin" /\ probe.result = "OrderListForStaffSerializer"
    /\ response.resource = "orders" /\ response.method = "GET"
    /\ response.caller = "admin" /\ response.data = {1, 2}
    /\ {orders[o].user : o \in DOMAIN orders} = {"alice", "bob"}

----------------------------------------------------------------------------
(* Airplanes written with any integer for rows and seats_in_row            *)

AnyCounts == [rows : (0 - 1)..MaxRows, seats_in_row : (0 - 1)..MaxSeats]

NextCounts ==
    \/ \E data \in AnyCounts :
          NextVal("airplanes") <= MaxAirplanes + 1 /\ AirplaneCreate("admin", data)
    \/ \E u \in {"admin", "alice"}, method \in {"PUT", "PATCH"},
          id \in 1..(MaxAirplanes + 1), data \in AnyCounts :
          AirplaneUpdate(u, method, id, data)
    \/ \E id \in 1..(MaxAirplanes + 1) : AirplaneRetrieve("alice", id)

SpecCounts == InitEmpty /\ [][NextCounts]_vars

\* C21: every persisted airplane has rows > 0 and seats_in_row > 0.
C21_AirplaneCountsPositive ==
    \A a \in DOMAIN airplanes :
       airplanes[a].rows > 0 /\ airplanes[a].seats_in_row > 0

----------------------------------------------------------------------------
(* Airport codes of one, three and four characters, in either case         *)

CodeCases ==
    {<<"A">>, <<"A", "A", "A">>, <<"a", "a", "a">>, <<"a", "A", "a">>,
     <<"A", "1", "A">>, <<"A", "A", "A", "A">>}

CodeData == [code : CodeCases, country : {"Yemen"}] \cup [code : CodeCases]

NextCodes ==
    \/ \E data \in CodeData :
          NextVal("airports") <= MaxAirports + 1 /\ AirportCreate("admin", data)
    \/ \E u \in {"admin", "alice"}, method \in {"PUT", "PATCH"},
          id \in 1..(MaxAirports + 1), data \in CodeData :
          AirportUpdate(u, method, id, data)
    \/ \E id \in 1..(MaxAirports + 1) : AirportDestroy("admin", id)

SpecCodes == InitEmpty /\ [][NextCodes]_vars

\* C23: every stored airport code has exactly 3 letters, and no two stored
\* airports have codes that are equal ignoring case.
C23_AirportCodeThreeLetters ==
    /\ \A a \in DOMAIN airports :
          Len(airports[a].code) = AirportCodeMaxLength /\ isalpha(airports[a].code)
    /\ \A a, b \in DOMAIN airports :
          a # b => upper(airports[a].code) # upper(airports[b].code)

----------------------------------------------------------------------------
(* Flight.clean called directly on flights of every pair of times, at      *)
(* every pair of readings of the clock                                     *)

InitClean ==
    /\ users = InitUsers
    /\ airplanes = EmptyTable
    /\ crews = EmptyTable
    /\ airports = EmptyTable
    /\ routes = EmptyTable
    /\ flights = EmptyTable
    /\ orders = EmptyTable
    /\ tickets = EmptyTable
    /\ seq = InitSeq
    /\ now = 0
    /\ reqs = [c \in 1..NumClients |-> Idle]
    /\ response = NoResponse
    /\ probe \in {p \in [flight : [departure_time : 0..MaxTime,
                                   arrival_time : 0..MaxTime],
                          first_now : 0..MaxTime, second_now : 0..MaxTime,
                          called : {FALSE}, result : {""}] :
                     p.first_now <= p.second_now}
    /\ settings \in Settings

NextClean == CallFlightClean

SpecClean == InitClean /\ [][NextClean]_vars

\* C24: Flight.clean reports the first failing check in the order
\* departure in the past, arrival before departure, arrival in the past: a
\* departure before the current time always gives the departure message
\* whatever the arrival, and when both readings of the clock agree the
\* arrival-in-the-past message is never the one reported.
C24_FlightCleanOrder ==
    probe.called =>
       /\ probe.flight.departure_time < probe.first_now =>
             probe.result = "Departure time cannot be in the past"
       /\ probe.flight.departure_time >= probe.first_now
          /\ probe.flight.arrival_time < probe.flight.departure_time =>
             probe.result = "Arrival time cannot be before departure time"
       /\ probe.result = "Arrival time cannot be in the past" =>
             /\ probe.flight.departure_time >= probe.first_now
             /\ probe.flight.arrival_time >= probe.flight.departure_time
             /\ probe.flight.arrival_time < probe.second_now
       /\ probe.first_now = probe.second_now =>
             probe.result # "Arrival time cannot be in the past"

\* a departure in the past with an arrival also in the past, and before the
\* departure: the departure message alone
C24_Witness ==
    /\ probe.called
    /\ probe.flight.departure_time < probe.first_now
    /\ probe.flight.arrival_time < probe.flight.departure_time
    /\ probe.first_now = probe.second_now
    /\ probe.result = "Departure time cannot be in the past"

----------------------------------------------------------------------------
(* Order update                                                            *)

\* the seats of an order, as (flight, row, seat)
SeatsOfOrder(ticket_table, o) ==
    {<<ticket_table[t].flight, ticket_table[t].row, ticket_table[t].seat>> :
        t \in {x \in DOMAIN ticket_table : ticket_table[x].order = o}}

\* C25: an update of an existing order by a member of staff with a list of
\* tickets that are in range and free is answered 200 and leaves the order
\* with exactly the submitted seats, the tickets of every other order
\* unchanged.
C25_OrderUpdateReplacesTickets ==
    [][response'.resource = "orders" /\ response'.method \in {"PUT", "PATCH"}
       /\ response'.caller = "admin" =>
          \A id \in CommittedOrders, data \in BookingUpdateData :
             (/\ Len(data.tickets) > 0
              /\ OrderSerializer_errors(data, FALSE, Committed) = ""
              /\ OrderUpdate("admin", response'.method, id, data)) =>
                /\ response'.status = 200
                /\ SeatsOfOrder(tickets', id) =
                      {<<data.tickets[i].flight, data.tickets[i].row,
                         data.tickets[i].seat>> : i \in DOMAIN data.tickets}
                /\ \A o \in DOMAIN orders \ {id} :
                      SeatsOfOrder(tickets', o) = SeatsOfOrder(tickets, o)]_vars

----------------------------------------------------------------------------
(* Flight update: what it leaves alone                                     *)

\* C26: a partial update of a flight by a member of staff whose body passes
\* validation is answered 200 and changes only the supplied fields: every
\* omitted field of the flight, and every omitted endpoint of its route,
\* keeps its value.
C26_PartialUpdateKeepsOmitted ==
    [][response'.resource = "flights" /\ response'.method = "PATCH" =>
          \A id \in DOMAIN flights, data \in FlightPatchData :
             (/\ FlightSerializer_errors(data, TRUE) = ""
              /\ FlightUpdate("admin", "PATCH", id, data)) =>
                /\ response'.status = 200
                /\ \A k \in FlightFields \ DOMAIN data :
                      flights'[id][k] = flights[id][k]
                /\ \A k \in RouteFields :
                      (~Has(data, {"route"}) \/ ~Has(data.route, {k})) =>
                         routes'[flights'[id].route][k]
                            = routes[flights[id].route][k]]_vars

\* Flight.objects.create(route=..., ...) on a route that is already there,
\* as the model's tests build their flights: Flight.route is a foreign key,
\* so any number of flights may name one route
Flight_objects_create(route, data) ==
    /\ route \in DOMAIN routes
    /\ flights' = Insert(flights, NextVal("flights"),
                         [route |-> route,
                          airplane |-> data.airplane,
                          crew |-> data.crew,
                          departure_time |-> data.departure_time,
                          arrival_time |-> data.arrival_time])
    /\ seq' = Advance("flights")
    /\ UNCHANGED <<users, airplanes, crews, airports, routes, orders, tickets,
                   now, reqs, response, probe, settings>>

MaxSharing == 2

NextShared ==
    \/ \E u \in {"admin", "alice"}, data \in FlightData :
          NextVal("flights") <= MaxSharing /\ FlightCreate(u, data)
    \/ \E route \in 1..MaxSharing, data \in FlightData :
          NextVal("flights") <= MaxSharing /\ Flight_objects_create(route, data)
    \/ \E u \in {"admin", "alice"}, id \in 1..MaxSharing, data \in FlightData :
          FlightUpdate(u, "PUT", id, data)

SpecShared == InitFleet /\ [][NextShared]_vars

\* C27: a create or an update of one flight leaves every other persisted
\* flight as it was: its airplane, crew and times, and the endpoints of its
\* route, also when the written flight shares its route with it.
C27_OtherFlightsUnchanged ==
    [][(response'.resource = "flights"
        /\ response'.method \in {"POST", "PUT", "PATCH"}) =>
          \A f \in DOMAIN flights \ response'.data :
             /\ f \in DOMAIN flights'
             /\ flights'[f] = flights[f]
             /\ routes'[flights'[f].route] = routes[flights[f].route]]_vars

----------------------------------------------------------------------------
(* Order list: rows of the filtered queryset                               *)

\* C28: the order list answered for any combination of the filters holds
\* each order at most once, also when an order has several tickets on the
\* flight named by flight_id: every order of the answer is one row of the
\* queryset the list is serialized from.
C28_OrderListDistinct ==
    [][(/\ response'.resource = "orders"
        /\ response'.method = "GET"
        /\ response'.status = 200
        /\ OrderList(response'.caller, response'.query)) =>
          \A o \in response'.data :
             OrderViewSet_get_queryset(response'.caller, response'.query)[o] = 1]_vars

----------------------------------------------------------------------------
(* Orders: the owner                                                       *)

\* bodies of one ticket that name another user as the owner
OwnerData ==
    {[tickets |-> list, user |-> u] :
        list \in [1..1 -> TicketData], u \in {"bob", "admin"}}

NextOwner ==
    \/ \E data \in OwnerData :
          OrderCreateBegin(1, "alice", data, MaxOrders, MaxTicketsPerOrder)
    \/ OrderCreateClean(1)
    \/ OrderCreateInsert(1)
    \/ \E u \in OrderWriters, method \in {"PUT", "PATCH"}, id \in 1..MaxOrders,
          data \in OwnerData \cup {[user |-> "bob"]} :
          OrderUpdate(u, method, id, data)
    \/ \E u \in OrderWriters, id \in 1..MaxOrders : OrderDestroy(u, id)
    \/ \E u \in Readers, params \in OrderParams : OrderList(u, params)

SpecOwner == InitBooked /\ [][NextOwner]_vars

\* C29: an order created through the API belongs to the user who made the
\* request, whatever the body holds, and no later step changes the owner of
\* an order.
C29_OrderOwnerIsRequester ==
    [][/\ \A o \in DOMAIN orders' \ DOMAIN orders :
             \E c \in DOMAIN reqs :
                /\ reqs[c].pc = "idle"
                /\ reqs'[c].pc = "clean"
                /\ reqs'[c].order = o
                /\ orders'[o].user = reqs'[c].user
       /\ \A o \in DOMAIN orders \cap DOMAIN orders' :
             orders'[o].user = orders[o].user]_vars

\* an order made by alice with a body naming somebody else, committed, and
\* an update of it by a member of staff answered afterwards
C29_Witness ==
    /\ \E o \in CommittedOrders : orders[o].user = "alice"
    /\ response.resource = "orders"
    /\ response.method \in {"PUT", "PATCH"}
    /\ response.caller = "admin"
    /\ response.status = 500

----------------------------------------------------------------------------
(* Available seats within the capacity                                     *)

\* C30: in every state reached by bookings, order deletions, flight updates
\* and airplane updates, the available_seats of every flight lies between 0
\* and the total_seats of its airplane.
C30_AvailableSeatsWithinCapacity ==
    \A f \in DOMAIN flights :
        /\ 0 <= available_seats(f)
        /\ available_seats(f) <= total_seats(airplanes[flights[f].airplane])

====
